---- MODULE Spec2Model ----
(***************************************************************************)
(* The blindtest game-session coordinator of src/app.py: one room of the   *)
(* registry, its Room object, the socket.io event handlers that mutate it  *)
(* and the background tasks (question timeout, close-voting wait, the      *)
(* standings barrier, the sweeper) that run between them.                  *)
(*                                                                         *)
(* The server runs under eventlet: a handler or task runs without          *)
(* interruption until it calls socketio.sleep or blocks on I/O, so every   *)
(* action below is the code between two such yield points.                 *)
(*                                                                         *)
(* Time is counted in whole seconds.  A sleeping task carries the seconds  *)
(* it still has to sleep, a polling loop the seconds it has waited, and a  *)
(* time.time() stamp that the code only ever subtracts from the current    *)
(* time is kept as the seconds elapsed since it was taken.  Tick lets one  *)
(* second pass, and only when no task is due to run; Sleep lets the time   *)
(* up to the next due task pass in one step.                               *)
(***************************************************************************)
EXTENDS Integers, Sequences, FiniteSets, TLC

\* ---------------------------------------------------------------- bounds
MaxSid == 4          \* connection ids are handed out from 1..MaxSid
MaxQuestions == 2    \* cap on len(all_questions) over all start_game calls
MaxGameNumber == 2   \* cap on current_game_number
MaxOverrun == 0      \* how far next_question may run past len(questions)
MaxTasks == 2        \* cap on pending tasks of one kind
MaxStarts == 1       \* cap on start_game calls in flight
MaxFolds == 2        \* standings_displayed is not taken after so many folds
MaxScore == 200      \* no rejoin_room from a roster connection at this score
MaxPrior == 7            \* players who answered before the one observed
MaxDelta == 20           \* seconds between the fastest answer and another
MaxClock == 1        \* datetime.now() readings saturate here
MaxRank == 12        \* the lowest rank a correct answer is given

\* ------------------------------------------------------ program constants
QUESTION_TIMEOUT == 15   \* socketio.sleep(15) in question_timeout
CLOSE_MAX_WAIT == 2      \* max_wait in close_voting_and_show_answer
MIN_DISPLAY_TIME == 6    \* min_display_time in wait_for_ready
READY_MAX_WAIT == 14     \* max_wait in wait_for_ready
GRACE_PERIOD == 30       \* GRACE_PERIOD in cleanup_disconnected_participants
SWEEP_INTERVAL == 5      \* socketio.sleep(5) in the sweeper loop
S == 100                 \* maximum speed score

Pin == 1                 \* the code of the one room that is modelled
Names == {"A", "B"}      \* display names clients may give
AnswerChoices == {0, 1}  \* option indexes clients submit
CorrectChoices == {0, 1} \* where random.shuffle may put the right artist
ClientStamps == {-2, -1, 0, 1}  \* client_timestamp: -1 absent, -2 unparsable
SongCounts == {1, 2}     \* song_count values the host sends
GamesCounts == {1, 2}    \* games_count values the host sends
None == -1               \* Python None for numeric fields
MaxSongCount == 30       \* the most songs start_game accepts for a game

SidSet == 1 .. MaxSid

\* ------------------------------------------------- Python dict emulation
\* A dict keyed by sid whose iteration order matters is a sequence of
\* records with a sid field, in insertion order.
Keys(d) == {d[i].sid : i \in DOMAIN d}

Pos(d, s) == CHOOSE i \in DOMAIN d : d[i].sid = s

Get(d, s) == d[Pos(d, s)]

RemoveAt(d, i) == SubSeq(d, 1, i - 1) \o SubSeq(d, i + 1, Len(d))

\* d[rec.sid] = rec : an existing key keeps its place, a new one goes last
DictSet(d, rec) ==
    IF rec.sid \in Keys(d) THEN [d EXCEPT ![Pos(d, rec.sid)] = rec]
    ELSE Append(d, rec)

\* del d[s]
DictDel(d, s) == RemoveAt(d, Pos(d, s))

\* A dict whose order is never observed is a function.
Put(f, k, v) == [x \in DOMAIN f \cup {k} |-> IF x = k THEN v ELSE f[x]]

Del(f, k) == [x \in DOMAIN f \ {k} |-> f[x]]

GetOr(f, k, dflt) == IF k \in DOMAIN f THEN f[k] ELSE dflt

EmptyDict == [x \in {} |-> 0]

Min(a, b) == IF a <= b THEN a ELSE b

Max(a, b) == IF a >= b THEN a ELSE b

\* ------------------------------------------------------------- messages
\* An emitted event: its name, the connection it goes to (0: the whole
\* socket room) and a tuple of integers of its payload.
Ev(name, to, arg) == [ev |-> name, to |-> to, arg |-> arg]

Bool2Int(b) == IF b THEN 1 ELSE 0

\* ------------------------------------------------------------ class Room
\* Room.__init__ : the fields of a new room created by connection host_sid.
\* current_question None is the question with track 0; question_start_time
\* holds a clock reading or None.
NoQuestion == [track |-> 0, correct_answer |-> None]

NewRoom(host) ==
    [ host_sid |-> host,
      participants |-> << >>,
      current_question |-> NoQuestion,
      question_index |-> 0,
      questions |-> << >>,
      state |-> "waiting",
      answers |-> EmptyDict,
      voting_closed |-> FALSE,
      correct_answer_acks |-> {},
      standings_ready_acks |-> {},
      question_start_scores |-> EmptyDict,
      question_start_time |-> None,
      games_in_series |-> 1,
      current_game_number |-> 1,
      series_scores |-> EmptyDict,
      all_questions |-> << >>,
      game_questions_map |-> EmptyDict,
      host_disconnected |-> FALSE,
      host_disconnect_time |-> None ]

\* A roster entry.  disconnect_time is the number of seconds since the
\* entry was marked disconnected (None while it is not).
Participant(sid, name, score) ==
    [sid |-> sid, name |-> name, score |-> score,
     disconnected |-> FALSE, disconnect_time |-> None]

add_participant(r, sid, name) ==
    [r EXCEPT !.participants = DictSet(@, Participant(sid, name, 0)),
              !.series_scores = IF sid \in DOMAIN @ THEN @ ELSE Put(@, sid, 0)]

remove_participant(r, sid) ==
    IF sid \in Keys(r.participants)
    THEN [r EXCEPT !.participants = DictDel(@, sid)]
    ELSE r

\* Room.get_scores : sorted(participants.values(), key=score, reverse=True).
\* The sort is stable, also with reverse=True: entries with the same score
\* stay in the order of the roster.  InsertByScore puts an entry behind
\* every entry whose score is not lower.
RECURSIVE InsertByScore(_, _)
InsertByScore(sorted, p) ==
    IF sorted = << >> THEN <<p>>
    ELSE IF sorted[1].score >= p.score
    THEN <<sorted[1]>> \o InsertByScore(Tail(sorted), p)
    ELSE <<p>> \o sorted

RECURSIVE SortByScore(_)
SortByScore(list) ==
    IF list = << >> THEN << >>
    ELSE InsertByScore(SortByScore(SubSeq(list, 1, Len(list) - 1)),
                       list[Len(list)])

\* An ascending sort read backwards: entries with the same score come out
\* in the reverse of the roster order.
RECURSIVE get_scores_reversed(_)
get_scores_reversed(r) ==
    IF r.participants = << >> THEN << >>
    ELSE LET rest == get_scores_reversed(
                        [r EXCEPT !.participants = SubSeq(@, 1, Len(@) - 1)])
             p == r.participants[Len(r.participants)]
             before == SelectSeq(rest, LAMBDA x : x.score > p.score)
             after == SelectSeq(rest, LAMBDA x : x.score <= p.score)
         IN  before \o <<p>> \o after

get_scores(r) == SortByScore(r.participants)

\* The answers recorded for the current question index, in insertion order.
CurrentAnswers(r) == GetOr(r.answers, r.question_index, << >>)

\* client_timestamp as parsed by record_answer: a valid ISO instant is
\* used, an absent or unparsable one falls back to the server's clock.
ResolveTimestamp(client_timestamp, now) ==
    IF client_timestamp >= 0 THEN client_timestamp ELSE now

\* Room.record_answer.  The entry keeps the option and the resolved
\* timestamp; server_received and used_client_time are diagnostics that
\* no other code reads back.
record_answer(r, sid, answer, client_timestamp, now) ==
    [r EXCEPT !.answers =
        Put(@, r.question_index,
            DictSet(CurrentAnswers(r),
                    [sid |-> sid, answer |-> answer,
                     timestamp |-> ResolveTimestamp(client_timestamp, now)]))]

\* get_score_multiplier with the two upper bands the other way round.
get_score_multiplier_bands_swapped(r) ==
    LET total_songs == Len(r.questions)
        current_song == r.question_index + 1
        threshold_2x == total_songs \div 2
        threshold_4x == (total_songs * 4) \div 5
    IN  IF current_song <= threshold_2x THEN 1
        ELSE IF current_song <= threshold_4x THEN 4
        ELSE 2

\* Room.get_score_multiplier : int(total * 0.5) and int(total * 0.8) are
\* total \div 2 and (total * 4) \div 5 for every total the handler accepts.
get_score_multiplier(r) ==
    LET total_songs == Len(r.questions)
        current_song == r.question_index + 1
        threshold_2x == total_songs \div 2
        threshold_4x == (total_songs * 4) \div 5
    IN  IF current_song <= threshold_2x THEN 1
        ELSE IF current_song <= threshold_4x THEN 2
        ELSE 4

\* Python's round() of num / den, den > 0: to nearest, ties to even.
RoundHalfEven(num, den) ==
    LET q == num \div den
        rem == num % den
    IN  IF 2 * rem > den THEN q + 1
        ELSE IF 2 * rem < den THEN q
        ELSE IF q % 2 = 0 THEN q ELSE q + 1

\* The ranks, up to 20, at which the double score_base * 0.85 lies below
\* the half it would be in exact arithmetic (25.499999999999993 for 25.5
\* at rank 8, -8.500000000000007 for -8.5 at rank 12): 1 - 0.10 * (rank - 1)
\* is not a multiple of a tenth in binary floating point.
FloatBelowTie == {8, 10, 12, 14, 18, 20}

\* The product without the rounding, in thousandths.
speed_points_truncated(rank, delta_t) ==
    ((S + 10 - 10 * rank) * Max(1000 - 8 * delta_t, 850)) \div 1000

\* round(score_base * facteur_temps) for a rank and a delta in seconds:
\* 100 * (1 - 0.10 * (rank - 1)) is 110 - 10 * rank, and the time factor
\* max(1 - 0.12 * (delta_t / 15), 0.85) is max(1000 - 8 * delta_t, 850)
\* thousandths.  The product is half way between two integers only at the
\* floor of the time factor and an even rank; round() then sees the double,
\* which is the exact half or a value just below it.
SpeedPoints(rank, delta_t) ==
    LET num == (S + 10 - 10 * rank) * Max(1000 - 8 * delta_t, 850)
    IN  IF num % 1000 = 500 /\ rank \in FloatBelowTie
        THEN num \div 1000
        ELSE RoundHalfEven(num, 1000)

\* Room.calculate_speed_points : the rank of sid among the correct answers
\* of the current question sorted by timestamp (list.sort is stable, so
\* equal timestamps keep their insertion order).
CorrectAnswers(r) ==
    SelectSeq(CurrentAnswers(r),
              LAMBDA a : a.answer = r.current_question.correct_answer)

RankOf(correct, sid) ==
    IF sid \in Keys(correct)
    THEN LET me == Pos(correct, sid)
         IN 1 + Cardinality({i \in DOMAIN correct :
                    \/ correct[i].timestamp < correct[me].timestamp
                    \/ /\ correct[i].timestamp = correct[me].timestamp
                       /\ i < me})
    ELSE 1

MinTimestamp(correct) ==
    CHOOSE t \in {correct[i].timestamp : i \in DOMAIN correct} :
        \A i \in DOMAIN correct : t <= correct[i].timestamp

calculate_speed_points(r, sid) ==
    LET correct == CorrectAnswers(r)
        rank == RankOf(correct, sid)
        player_time == IF sid \in Keys(correct)
                       THEN Get(correct, sid).timestamp ELSE 0
        t_min == IF correct # << >> THEN MinTimestamp(correct) ELSE 0
    IN  SpeedPoints(rank, player_time - t_min)

\* Room.check_answer : whether the option is the right one, and the room
\* after the points were added.
IsCorrect(r, answer) ==
    r.current_question # NoQuestion /\ answer = r.current_question.correct_answer

\* check_answer adding the speed points without the multiplier.
check_answer_unscaled(r, sid, answer) ==
    IF IsCorrect(r, answer)
    THEN [r EXCEPT !.participants[Pos(r.participants, sid)].score =
                        @ + calculate_speed_points(r, sid)]
    ELSE r

check_answer(r, sid, answer) ==
    IF IsCorrect(r, answer)
    THEN [r EXCEPT !.participants[Pos(r.participants, sid)].score =
                        @ + calculate_speed_points(r, sid) * get_score_multiplier(r)]
    ELSE r

\* ---------------------------------------------------------------- state
VARIABLES
    rooms,      \* the registry: the set of codes of the rooms that exist
    room,       \* the Room object of code Pin (it outlives its registry entry
                \* in the tasks that hold a reference to it)
    connected,  \* the connection ids of the open sockets
    nextSid,    \* the id the next connection gets
    now,        \* the server clock read by datetime.now(), capped at MaxClock
    sweeper,    \* seconds until the sweeper wakes up
    timers,     \* pending question_timeout tasks
    closes,     \* close_voting_and_show_answer calls waiting in their loop
    barriers,   \* pending wait_for_ready tasks
    starts,     \* start_game calls that are generating questions
    hist,       \* history, read by no handler: the question transitions so
                \* far (epoch) and, since the last one, the timeout tasks
                \* that woke up (timeouts, counted up to MaxTasks), the runs
                \* of the close routine (closes), the standings it sent
                \* (standings) and the folds of the scores into the series
                \* (folds); what each participant held when the
                \* connection was lost (left); and for how long the host
                \* had been disconnected at the last host rejoin (away);
                \* whether playback_started was handled since the last
                \* question transition (played); the roster connections
                \* whose ready_for_next was handled since the standings of
                \* the current question were displayed (ready); for the
                \* connections that joined while the state was playing, the
                \* question transitions there had been at that moment
                \* (late); the connections whose identity a rejoin from
                \* another connection took over and that have taken none
                \* since, each with whether it has disconnected after that
                \* (superseded)
    out         \* the events emitted by the last step

conn == <<connected, nextSid>>

clock == <<now, sweeper>>

tasks == <<timers, closes, barriers, starts>>

history == <<hist>>

vars == <<rooms, room, connected, nextSid, now, sweeper, timers, closes,
          barriers, starts, hist, out>>

\* The history after a question transition.
NewEpoch(h) ==
    [h EXCEPT !.epoch = @ + 1, !.timeouts = 0, !.closes = 0, !.standings = 0,
              !.folds = 0, !.played = FALSE, !.ready = {}]

\* handle_create_room by the first connection, and the sweeper started by
\* the main program: the state the actions start from.
Init ==
    /\ rooms = {Pin}
    /\ room = NewRoom(1)
    /\ connected = {1}
    /\ nextSid = 2
    /\ now = 0
    /\ sweeper = SWEEP_INTERVAL
    /\ timers = << >>
    /\ closes = << >>
    /\ barriers = << >>
    /\ starts = << >>
    /\ hist = [epoch |-> 0, timeouts |-> 0, closes |-> 0, standings |-> 0,
               folds |-> 0, left |-> EmptyDict, away |-> None,
               played |-> FALSE, ready |-> {}, late |-> EmptyDict,
               superseded |-> EmptyDict]
    /\ out = {}

\* A handler that changes nothing but the room and answers with events o.
Reply(r, o) ==
    /\ room' = r
    /\ out' = o
    /\ UNCHANGED <<rooms, conn, clock, tasks, history>>

\* The same for a handler that moves the room to another question.
ReplyNewQuestion(r, o) ==
    /\ room' = r
    /\ out' = o
    /\ hist' = NewEpoch(hist)
    /\ UNCHANGED <<rooms, conn, clock, tasks>>

Error(s, msg) == {Ev("error", s, <<msg>>)}

\* the messages of emit('error', ...)
ROOM_NOT_FOUND == 1
NOT_HOST == 2
NOT_IN_GAME == 3
VOTING_ENDED == 4
ALREADY_ANSWERED == 5
PROVIDER_FAILED == 6

\* ------------------------------------------------------- connect, leave
\* The history of take-overs after connection s took the identity that
\* connection old had, and after connection s took an identity of its own.
Supersede(sup, old, s) ==
    LET rest == [x \in DOMAIN sup \ {s} |-> sup[x]]
    IN  IF old = s THEN rest ELSE Put(rest, old, FALSE)

TakesIdentity(sup, s) == [x \in DOMAIN sup \ {s} |-> sup[x]]

handle_connect ==
    /\ nextSid <= MaxSid
    /\ connected' = connected \cup {nextSid}
    /\ nextSid' = nextSid + 1
    /\ out' = {Ev("connected", nextSid, << >>)}
    /\ UNCHANGED <<rooms, room, clock, tasks, history>>

\* A disconnect that drops the participant from the roster at once.
DisconnectRoomRemoving(r, s) ==
    IF r.host_sid = s
    THEN [r EXCEPT !.host_disconnected = TRUE, !.host_disconnect_time = 0]
    ELSE IF s \in Keys(r.participants)
    THEN [r EXCEPT !.participants = DictDel(@, s)]
    ELSE r

\* A disconnect that takes every connection off the roster for the host.
DisconnectRoomHostByDefault(r, s) ==
    IF s \in Keys(r.participants)
    THEN [r EXCEPT !.participants[Pos(r.participants, s)] =
                [@ EXCEPT !.disconnected = TRUE, !.disconnect_time = 0]]
    ELSE [r EXCEPT !.host_disconnected = TRUE, !.host_disconnect_time = 0]

\* handle_disconnect : the loop over the registry finds the one room.
DisconnectRoom(r, s) ==
    IF r.host_sid = s
    THEN [r EXCEPT !.host_disconnected = TRUE, !.host_disconnect_time = 0]
    ELSE IF s \in Keys(r.participants)
    THEN [r EXCEPT !.participants[Pos(r.participants, s)] =
                [@ EXCEPT !.disconnected = TRUE, !.disconnect_time = 0]]
    ELSE r

\* The score and the series score under a roster key.
Held(r, s) ==
    [score |-> Get(r.participants, s).score,
     series |-> GetOr(r.series_scores, s, 0)]

handle_disconnect(s) ==
    /\ s \in connected
    /\ connected' = connected \ {s}
    /\ room' = IF Pin \in rooms THEN DisconnectRoom(room, s) ELSE room
    /\ out' = IF Pin \notin rooms THEN {}
              ELSE IF room.host_sid = s THEN {Ev("host_disconnected", 0, << >>)}
              ELSE IF s \in Keys(room.participants)
              THEN {Ev("participant_disconnected", 0, << >>)}
              ELSE {}
    /\ hist' = [hist EXCEPT
                  !.left = IF Pin \in rooms /\ room.host_sid # s
                              /\ s \in Keys(room.participants)
                           THEN Put(@, s, Held(room, s)) ELSE @,
                  !.superseded = IF s \in DOMAIN @ THEN Put(@, s, TRUE) ELSE @]
    /\ UNCHANGED <<rooms, nextSid, clock, tasks>>

handle_join_room(s, name) ==
    /\ s \in connected
    /\ IF Pin \notin rooms
       THEN Reply(room, Error(s, ROOM_NOT_FOUND))
       ELSE /\ room' = add_participant(room, s, name)
            /\ out' = {Ev("room_joined", s, <<Bool2Int(room.state = "playing")>>),
                       Ev("participant_joined", 0, <<s>>)}
            /\ hist' = [hist EXCEPT
                          !.late = IF room.state = "playing"
                                   THEN Put(@, s, hist.epoch) ELSE @,
                          !.superseded = TakesIdentity(@, s)]
            /\ UNCHANGED <<rooms, conn, clock, tasks>>

\* handle_rejoin, was_host : the sender becomes the host.
should_advance(r) ==
    /\ r.state = "playing"
    /\ r.voting_closed
    /\ Cardinality(r.standings_ready_acks) = Len(r.participants)

\* The host branch leaving the host marked disconnected.
RejoinHostKeepsFlag(r, s) ==
    [r EXCEPT !.host_sid = s]

RejoinHost(r, s) ==
    [r EXCEPT !.host_sid = s,
              !.host_disconnected = FALSE,
              !.host_disconnect_time = None]

\* handle_rejoin, participant : the first roster entry with the name.
OldSid(r, name) ==
    LET hits == {i \in DOMAIN r.participants : r.participants[i].name = name}
    IN  IF hits = {} THEN None
        ELSE r.participants[CHOOSE i \in hits : \A j \in hits : i <= j].sid

MoveAnswer(r, old_sid, s) ==
    IF r.question_index \in DOMAIN r.answers
       /\ old_sid \in Keys(r.answers[r.question_index])
    THEN LET cur == r.answers[r.question_index]
             moved == DictSet(cur, [Get(cur, old_sid) EXCEPT !.sid = s])
         IN  [r EXCEPT !.answers[r.question_index] = DictDel(moved, old_sid)]
    ELSE r

MoveSeriesScore(r, old_sid, s) ==
    IF old_sid \in DOMAIN r.series_scores
    THEN [r EXCEPT !.series_scores = Del(Put(@, s, @[old_sid]), old_sid)]
    ELSE r

RejoinParticipant(r, old_sid, s) ==
    LET old == Get(r.participants, old_sid)
        r1 == [r EXCEPT !.participants =
                  DictSet(DictDel(@, old_sid), Participant(s, old.name, old.score))]
    IN  MoveAnswer(MoveSeriesScore(r1, old_sid, s), old_sid, s)

handle_rejoin(s, name, was_host) ==
    /\ s \in connected
    /\ IF Pin \notin rooms
       THEN Reply(room, {Ev("rejoin_failed", s, << >>)})
       ELSE IF was_host
       THEN /\ room' = RejoinHost(room, s)
            /\ out' = {Ev("rejoin_success", s,
                          <<Bool2Int(should_advance(room))>>),
                       Ev("host_reconnected", 0, << >>)}
            /\ hist' = [hist EXCEPT
                          !.away = room.host_disconnect_time,
                          !.superseded =
                              IF room.host_sid \in Keys(room.participants)
                              THEN TakesIdentity(@, s)
                              ELSE Supersede(@, room.host_sid, s)]
            /\ UNCHANGED <<rooms, conn, clock, tasks>>
       ELSE IF OldSid(room, name) # None
       THEN /\ room' = RejoinParticipant(room, OldSid(room, name), s)
            /\ out' = {Ev("rejoin_success", s,
                          <<Get(room.participants, OldSid(room, name)).score>>),
                       Ev("participant_reconnected", 0, << >>)}
            /\ hist' = [hist EXCEPT
                          !.superseded =
                              IF room.host_sid = OldSid(room, name)
                              THEN TakesIdentity(@, s)
                              ELSE Supersede(@, OldSid(room, name), s)]
            /\ UNCHANGED <<rooms, conn, clock, tasks>>
       ELSE Reply(room, {Ev("rejoin_failed", s, << >>)})

\* -------------------------------------------------------- send_question
\* The room after send_question: the score snapshot, the start time and the
\* reopened vote.
send_question(r, t) ==
    [r EXCEPT !.question_start_scores =
                  [s \in Keys(r.participants) |-> Get(r.participants, s).score],
              !.question_start_time = t,
              !.voting_closed = FALSE]

\* An event for the socket room without the connection skip_sid: the
\* recipient is written as the negative of the connection left out.
EvSkip(name, skip_sid, arg) == Ev(name, 0 - skip_sid, arg)

\* send_question with the full question going to the whole socket room.
send_question_out_to_room(r) ==
    {Ev("new_question", 0,
        <<r.question_index + 1, Len(r.questions), r.current_question.track,
          r.current_question.correct_answer, get_score_multiplier(r)>>),
     EvSkip("new_question_participant", r.host_sid,
        <<r.question_index + 1, Len(r.questions)>>)}

\* What send_question emits: the full question (track, options in their
\* shuffled order, index of the right one) with to=host_sid, which
\* socketio.emit uses before room=; and the number, the total and the
\* colours, which are those of the room for every question, to the socket
\* room with skip_sid=host_sid.
SendQuestionOut(r) ==
    {Ev("new_question", r.host_sid,
        <<r.question_index + 1, Len(r.questions), r.current_question.track,
          r.current_question.correct_answer, get_score_multiplier(r)>>),
     EvSkip("new_question_participant", r.host_sid,
        <<r.question_index + 1, Len(r.questions)>>)}

\* ----------------------------------------------------------- start_game
Clamp(lo, hi, x) == Max(lo, Min(hi, x))

ProviderOutcomes == {"ok", "error", "no_tracks", "too_few", "no_audio"}

\* handle_start_game going on whatever the track fetch returned.
start_game_ignoring_failure(s, song_count, games_count, outcome) ==
    /\ s \in connected
    /\ Len(starts) < MaxStarts
    /\ IF Pin \notin rooms
       THEN Reply(room, Error(s, ROOM_NOT_FOUND))
       ELSE IF room.host_sid # s
       THEN Reply(room, Error(s, NOT_HOST))
       ELSE /\ starts' = Append(starts,
                            [song_count |-> Clamp(1, 30, song_count),
                             games_count |-> Clamp(1, 5, games_count)])
            /\ out' = {Ev("question_progress", 0, << >>)}
            /\ UNCHANGED <<rooms, room, conn, clock, timers, closes, barriers,
                           history>>

\* handle_start_game up to the point where the questions are generated:
\* the host check and the track fetch.  The generation calls out to the
\* providers, so the rest runs later (StartGameFinish).
handle_start_game(s, song_count, games_count, outcome) ==
    /\ s \in connected
    /\ Len(starts) < MaxStarts
    /\ IF Pin \notin rooms
       THEN Reply(room, Error(s, ROOM_NOT_FOUND))
       ELSE IF room.host_sid # s
       THEN Reply(room, Error(s, NOT_HOST))
       ELSE IF outcome # "ok"
       THEN Reply(room, {Ev("question_progress", 0, << >>)}
                        \cup Error(s, PROVIDER_FAILED))
       ELSE /\ starts' = Append(starts,
                            [song_count |-> Clamp(1, 30, song_count),
                             games_count |-> Clamp(1, 5, games_count)])
            /\ out' = {Ev("question_progress", 0, << >>)}
            /\ UNCHANGED <<rooms, room, conn, clock, timers, closes, barriers,
                           history>>

\* game_questions_map after the split: game g gets the indices
\* (g-1)*song_count .. g*song_count - 1 of all_questions.
SplitGames(map, song_count, games_count) ==
    [g \in DOMAIN map \cup (1 .. games_count) |->
        IF g \in 1 .. games_count
        THEN [k \in 1 .. song_count |-> (g - 1) * song_count + k - 1]
        ELSE map[g]]

\* [room.all_questions[i] for i in indices]
Slice(all_questions, indices) ==
    [k \in DOMAIN indices |-> all_questions[indices[k] + 1]]

\* The room after the questions were generated and the first game set up;
\* correct[k] is where the shuffle put the artist of the k-th new question.
StartFirstGame(r, song_count, games_count, correct) ==
    LET n == song_count * games_count
        all == r.all_questions \o
                 [k \in 1 .. n |->
                    [track |-> Len(r.all_questions) + k,
                     correct_answer |-> correct[k]]]
        map == SplitGames(r.game_questions_map, song_count, games_count)
        qs == Slice(all, map[1])
    IN  [r EXCEPT !.all_questions = all,
                  !.game_questions_map = map,
                  !.games_in_series = games_count,
                  !.current_game_number = 1,
                  !.questions = qs,
                  !.state = "playing",
                  !.question_index = 0,
                  !.current_question = qs[1]]

\* The end of handle_start_game.  send_question looks the room up again
\* and raises when the registry lost it in the meantime.
StartGameFinish(i) ==
    /\ i \in DOMAIN starts
    /\ LET st == starts[i]
           n == st.song_count * st.games_count
       IN  /\ Len(room.all_questions) + n <= MaxQuestions
           /\ \E correct \in [1 .. n -> CorrectChoices] :
                LET r1 == StartFirstGame(room, st.song_count, st.games_count,
                                         correct)
                IN  IF Pin \in rooms
                    THEN /\ room' = send_question(r1, now)
                         /\ out' = {Ev("game_started", 0,
                                       <<Len(r1.questions), st.games_count, 1>>)}
                                   \cup SendQuestionOut(r1)
                    ELSE /\ room' = r1
                         /\ out' = {Ev("game_started", 0,
                                       <<Len(r1.questions), st.games_count, 1>>)}
    /\ starts' = RemoveAt(starts, i)
    /\ hist' = NewEpoch(hist)
    /\ UNCHANGED <<rooms, conn, clock, timers, closes, barriers>>

\* ------------------------------------------------------ start_next_game
\* The reset without the loop that zeroes the scores.
ResetKeepingScores(r) ==
    [r EXCEPT !.current_game_number = @ + 1,
              !.question_index = 0,
              !.answers = EmptyDict,
              !.voting_closed = FALSE,
              !.correct_answer_acks = {},
              !.standings_ready_acks = {},
              !.question_start_scores = EmptyDict]

\* The state reset that handle_start_next_game does before it looks the
\* next game up.
ResetForNextGame(r) ==
    [r EXCEPT !.current_game_number = @ + 1,
              !.question_index = 0,
              !.answers = EmptyDict,
              !.voting_closed = FALSE,
              !.correct_answer_acks = {},
              !.standings_ready_acks = {},
              !.question_start_scores = EmptyDict,
              !.participants = [i \in DOMAIN @ |-> [@[i] EXCEPT !.score = 0]]]

LoadGame(r) ==
    LET qs == Slice(r.all_questions, r.game_questions_map[r.current_game_number])
    IN  [r EXCEPT !.questions = qs,
                  !.current_question = qs[1],
                  !.state = "playing"]

\* handle_start_next_game.  game_questions_map[current_game_number] raises
\* KeyError when no such game was generated: the handler stops there, with
\* the reset already done.
handle_start_next_game(s) ==
    /\ s \in connected
    /\ IF Pin \notin rooms
       THEN Reply(room, Error(s, ROOM_NOT_FOUND))
       ELSE IF room.host_sid # s
       THEN Reply(room, Error(s, NOT_HOST))
       ELSE /\ room.current_game_number < MaxGameNumber
            /\ LET r1 == ResetForNextGame(room)
               IN  IF r1.current_game_number \in DOMAIN r1.game_questions_map
                   THEN ReplyNewQuestion(
                            send_question(LoadGame(r1), now),
                            {Ev("game_started", 0,
                                <<Len(LoadGame(r1).questions), r1.games_in_series,
                                  r1.current_game_number>>)}
                            \cup SendQuestionOut(LoadGame(r1)))
                   ELSE ReplyNewQuestion(r1, {})

\* -------------------------------------------------------- next_question
\* handle_next_question leaving the state alone past the last question.
next_question_never_ends(s) ==
    /\ s \in connected
    /\ IF Pin \notin rooms
       THEN Reply(room, Error(s, ROOM_NOT_FOUND))
       ELSE IF room.host_sid # s
       THEN Reply(room, Error(s, NOT_HOST))
       ELSE /\ room.question_index < Len(room.questions) + MaxOverrun
            /\ LET r1 == [room EXCEPT !.question_index = @ + 1,
                                      !.voting_closed = FALSE]
               IN  IF r1.question_index >= Len(r1.questions)
                   THEN ReplyNewQuestion(r1, {Ev("game_ended", 0, << >>)})
                   ELSE LET r2 == [r1 EXCEPT !.current_question =
                                        r1.questions[r1.question_index + 1]]
                        IN  ReplyNewQuestion(send_question(r2, now),
                                             SendQuestionOut(r2))

handle_next_question(s) ==
    /\ s \in connected
    /\ IF Pin \notin rooms
       THEN Reply(room, Error(s, ROOM_NOT_FOUND))
       ELSE IF room.host_sid # s
       THEN Reply(room, Error(s, NOT_HOST))
       ELSE /\ room.question_index < Len(room.questions) + MaxOverrun
            /\ LET r1 == [room EXCEPT !.question_index = @ + 1,
                                      !.voting_closed = FALSE]
               IN  IF r1.question_index >= Len(r1.questions)
                   THEN ReplyNewQuestion([r1 EXCEPT !.state = "ended"],
                                         {Ev("game_ended", 0, << >>)})
                   ELSE LET r2 == [r1 EXCEPT !.current_question =
                                        r1.questions[r1.question_index + 1]]
                        IN  ReplyNewQuestion(send_question(r2, now),
                                             SendQuestionOut(r2))

\* handle_end_game without the host check.
end_game_by_anyone(s) ==
    /\ s \in connected
    /\ IF Pin \notin rooms
       THEN Reply(room, Error(s, ROOM_NOT_FOUND))
       ELSE Reply([room EXCEPT !.state = "ended"], {Ev("game_ended", 0, << >>)})

handle_end_game(s) ==
    /\ s \in connected
    /\ IF Pin \notin rooms
       THEN Reply(room, Error(s, ROOM_NOT_FOUND))
       ELSE IF room.host_sid # s
       THEN Reply(room, Error(s, NOT_HOST))
       ELSE Reply([room EXCEPT !.state = "ended"], {Ev("game_ended", 0, << >>)})

\* -------------------------------------------------------- submit_answer
HasAnswered(r, s) ==
    r.question_index \in DOMAIN r.answers
    /\ s \in Keys(r.answers[r.question_index])

\* The room after an accepted answer: recorded, then checked and scored.
AcceptAnswer(r, s, answer, client_timestamp, t) ==
    check_answer(record_answer(r, s, answer, client_timestamp, t), s, answer)

\* The all-answered check at the end of handle_submit_answer.
AllAnswered(r) == Len(CurrentAnswers(r)) = Len(r.participants)

\* response_time_ms of handle_submit_answer, in seconds: the time from
\* question_start_time to the receipt of the answer, None when the room has
\* no question_start_time.  The client sends no client_response_time_ms,
\* so the server's measure is the one reported.
ResponseTime(r, t) ==
    IF r.question_start_time = None THEN None ELSE t - r.question_start_time

SubmitOut(r, r1, s, answer) ==
    {Ev("answer_feedback", s,
        <<Bool2Int(IsCorrect(r, answer)), Get(r1.participants, s).score>>),
     Ev("player_answered", 0, <<s, ResponseTime(r1, now)>>),
     Ev("scores_updated", 0,
        [i \in DOMAIN get_scores(r1) |-> get_scores(r1)[i].sid])}
    \cup (IF AllAnswered(r1)
          THEN {Ev("all_participants_voted", 0, << >>)} ELSE {})

\* handle_submit_answer without the duplicate check.
submit_answer_no_duplicate_check(s, answer, client_timestamp) ==
    /\ s \in connected
    /\ IF Pin \notin rooms
       THEN Reply(room, Error(s, ROOM_NOT_FOUND))
       ELSE IF s \notin Keys(room.participants)
       THEN Reply(room, Error(s, NOT_IN_GAME))
       ELSE IF room.voting_closed
       THEN Reply(room, Error(s, VOTING_ENDED))
       ELSE LET r1 == AcceptAnswer(room, s, answer, client_timestamp, now)
            IN  Reply(r1, SubmitOut(room, r1, s, answer))

\* handle_submit_answer without the voting_closed check.
submit_answer_no_closed_check(s, answer, client_timestamp) ==
    /\ s \in connected
    /\ IF Pin \notin rooms
       THEN Reply(room, Error(s, ROOM_NOT_FOUND))
       ELSE IF s \notin Keys(room.participants)
       THEN Reply(room, Error(s, NOT_IN_GAME))
       ELSE IF HasAnswered(room, s)
       THEN Reply(room, Error(s, ALREADY_ANSWERED))
       ELSE LET r1 == AcceptAnswer(room, s, answer, client_timestamp, now)
            IN  Reply(r1, SubmitOut(room, r1, s, answer))

\* handle_submit_answer closing the vote itself with the last answer.
submit_answer_closing_early(s, answer, client_timestamp) ==
    /\ s \in connected
    /\ IF Pin \notin rooms
       THEN Reply(room, Error(s, ROOM_NOT_FOUND))
       ELSE IF s \notin Keys(room.participants)
       THEN Reply(room, Error(s, NOT_IN_GAME))
       ELSE IF room.voting_closed
       THEN Reply(room, Error(s, VOTING_ENDED))
       ELSE IF HasAnswered(room, s)
       THEN Reply(room, Error(s, ALREADY_ANSWERED))
       ELSE LET r1 == AcceptAnswer(room, s, answer, client_timestamp, now)
                r2 == IF AllAnswered(r1)
                      THEN [r1 EXCEPT !.voting_closed = TRUE] ELSE r1
            IN  Reply(r2, SubmitOut(room, r1, s, answer)
                          \cup (IF AllAnswered(r1)
                                THEN {Ev("show_correct_answer", 0, <<0, 0>>)}
                                ELSE {}))

handle_submit_answer(s, answer, client_timestamp) ==
    /\ s \in connected
    /\ IF Pin \notin rooms
       THEN Reply(room, Error(s, ROOM_NOT_FOUND))
       ELSE IF s \notin Keys(room.participants)
       THEN Reply(room, Error(s, NOT_IN_GAME))
       ELSE IF room.voting_closed
       THEN Reply(room, Error(s, VOTING_ENDED))
       ELSE IF HasAnswered(room, s)
       THEN Reply(room, Error(s, ALREADY_ANSWERED))
       ELSE LET r1 == AcceptAnswer(room, s, answer, client_timestamp, now)
            IN  Reply(r1, SubmitOut(room, r1, s, answer))

\* ----------------------------------------- playback_started and timeout
\* handle_playback_started : the timeout task keeps the question index of
\* the moment it was scheduled (and, as history, the epoch).
handle_playback_started(s) ==
    /\ s \in connected
    /\ Pin \in rooms
    /\ Len(timers) < MaxTasks
    /\ timers' = Append(timers, [q |-> room.question_index,
                                 left |-> QUESTION_TIMEOUT,
                                 epoch |-> hist.epoch])
    /\ out' = {Ev("start_question_timer", 0, << >>)}
    /\ hist' = [hist EXCEPT !.played = TRUE]
    /\ UNCHANGED <<rooms, room, conn, clock, closes, barriers, starts>>

\* The test without its look at voting_closed.
TimeoutAppliesWhenClosed(t) ==
    /\ Pin \in rooms
    /\ room.question_index = t.q

\* The test question_timeout makes when it wakes up.
TimeoutApplies(t) ==
    /\ Pin \in rooms
    /\ room.question_index = t.q
    /\ ~room.voting_closed

\* A close that leaves the vote open.
CloseVotingAcksOnly(r) ==
    [r EXCEPT !.correct_answer_acks = {}]

\* close_voting_and_show_answer up to its wait loop.
CloseVoting(r) ==
    [r EXCEPT !.voting_closed = TRUE, !.correct_answer_acks = {}]

\* question_timeout after its sleep, and the first part of the close
\* routine it calls.  With no current question the reveal raises TypeError
\* and the routine ends before its loop.
question_timeout(i) ==
    /\ i \in DOMAIN timers
    /\ timers[i].left = 0
    /\ timers' = RemoveAt(timers, i)
    /\ IF TimeoutApplies(timers[i])
       THEN /\ room' = CloseVoting(room)
            /\ hist' = [hist EXCEPT !.timeouts = Min(@ + 1, MaxTasks),
                                     !.closes = @ + 1]
            /\ IF room.current_question = NoQuestion
               THEN /\ out' = {Ev("question_timeout", 0, << >>)}
                    /\ closes' = closes
               ELSE /\ out' = {Ev("question_timeout", 0, << >>),
                               Ev("show_correct_answer", 0,
                                  <<room.current_question.correct_answer,
                                    room.current_question.track>>)}
                    /\ closes' = Append(closes,
                                   [participant_count |-> Len(room.participants),
                                    waited |-> 0,
                                    epoch |-> hist.epoch])
       ELSE /\ out' = {}
            /\ hist' = [hist EXCEPT !.timeouts = Min(@ + 1, MaxTasks)]
            /\ UNCHANGED <<room, closes>>
    /\ UNCHANGED <<rooms, conn, clock, barriers, starts>>

\* A loop that only the acknowledgments end.
CloseWaitForAcks(c) ==
    Cardinality(room.correct_answer_acks) >= c.participant_count

\* The wait loop of the close routine is over.
CloseWaitOver(c) ==
    \/ c.waited >= CLOSE_MAX_WAIT
    \/ Cardinality(room.correct_answer_acks) >= c.participant_count

\* scores_with_gains of close_voting_and_show_answer: for every roster
\* entry the score and the score minus question_start_scores.get(sid, 0),
\* sorted by score.
ScoresWithGains(r) ==
    SortByScore([i \in DOMAIN r.participants |->
                   [sid |-> r.participants[i].sid,
                    score |-> r.participants[i].score,
                    points_gained |->
                        r.participants[i].score
                        - GetOr(r.question_start_scores, r.participants[i].sid, 0)]])

\* The rest of close_voting_and_show_answer: the standings go to the host.
show_intermediate_scores(i) ==
    /\ i \in DOMAIN closes
    /\ CloseWaitOver(closes[i])
    /\ closes' = RemoveAt(closes, i)
    /\ out' = {Ev("show_intermediate_scores", room.host_sid,
                  <<Bool2Int(room.question_index + 1 >= Len(room.questions)),
                    ScoresWithGains(room)>>)}
    /\ hist' = IF closes[i].epoch = hist.epoch
               THEN [hist EXCEPT !.standings = @ + 1] ELSE hist
    /\ UNCHANGED <<rooms, room, conn, clock, timers, barriers, starts>>

handle_correct_answer_displayed(s) ==
    /\ s \in connected
    /\ IF Pin \in rooms /\ s \in Keys(room.participants)
       THEN Reply([room EXCEPT !.correct_answer_acks = @ \cup {s}], {})
       ELSE Reply(room, {})

handle_ready_for_next(s) ==
    /\ s \in connected
    /\ IF Pin \in rooms /\ s \in Keys(room.participants)
       THEN /\ room' = [room EXCEPT !.standings_ready_acks = @ \cup {s}]
            /\ hist' = [hist EXCEPT !.ready = @ \cup {s}]
       ELSE UNCHANGED <<room, hist>>
    /\ out' = {}
    /\ UNCHANGED <<rooms, conn, clock, tasks>>

\* ------------------------------------------------- the standings barrier
\* handle_standings_displayed : the acknowledgments are reset and the
\* wait_for_ready task is spawned; elapsed counts from standings_shown_at.
handle_standings_displayed(s) ==
    /\ s \in connected
    /\ Pin \in rooms
    /\ Len(barriers) < MaxTasks
    /\ hist.folds < MaxFolds
    /\ room' = [room EXCEPT !.standings_ready_acks = {}]
    /\ barriers' = Append(barriers, [pc |-> "start", participant_count |-> 0,
                                     elapsed |-> 0, epoch |-> hist.epoch])
    /\ out' = {}
    /\ hist' = [hist EXCEPT !.ready = {}]
    /\ UNCHANGED <<rooms, conn, clock, timers, closes, starts>>

\* The loop of wait_for_ready is over.
ReadyWaitOver(b) ==
    \/ b.elapsed >= READY_MAX_WAIT
    \/ Cardinality(room.standings_ready_acks) >= b.participant_count

\* wait_for_ready starts: it counts the roster and enters its loop, or,
\* with nobody to wait for, goes straight to the minimum display sleep.
wait_for_ready(i) ==
    /\ i \in DOMAIN barriers
    /\ barriers[i].pc = "start"
    /\ Pin \in rooms
    /\ LET b == [barriers[i] EXCEPT !.participant_count = Len(room.participants)]
       IN  barriers' = [barriers EXCEPT ![i] =
                          [b EXCEPT !.pc = IF ReadyWaitOver(b) THEN "hold"
                                           ELSE "poll"]]
    /\ out' = {}
    /\ UNCHANGED <<rooms, room, conn, clock, timers, closes, starts, history>>

\* What wait_for_ready does once the display time is over: the last
\* question of a game folds the scores into the series and ends the game
\* or the series, any other asks the host to advance.
IsLastQuestion(r) == r.question_index + 1 >= Len(r.questions)

IsLastGame(r) == r.current_game_number >= r.games_in_series

FoldSeries(r) ==
    [r EXCEPT !.series_scores =
        [s \in DOMAIN @ \cup Keys(r.participants) |->
            IF s \in Keys(r.participants)
            THEN GetOr(@, s, 0) + Get(r.participants, s).score
            ELSE @[s]]]

BarrierRoom(r) ==
    IF IsLastQuestion(r)
    THEN IF IsLastGame(r) THEN [FoldSeries(r) EXCEPT !.state = "ended"]
         ELSE FoldSeries(r)
    ELSE r

BarrierOut(r) ==
    IF IsLastQuestion(r)
    THEN IF IsLastGame(r)
         THEN {Ev("series_ended", 0, <<r.games_in_series>>)}
         ELSE {Ev("game_ended", 0, <<r.current_game_number, r.games_in_series>>)}
    ELSE {Ev("advance_question", r.host_sid, << >>)}

BarrierDone(i) ==
    /\ barriers' = RemoveAt(barriers, i)
    /\ room' = BarrierRoom(room)
    /\ out' = BarrierOut(room)
    /\ hist' = IF IsLastQuestion(room)
               THEN [hist EXCEPT !.folds = @ + 1] ELSE hist
    /\ UNCHANGED <<rooms, conn, clock, timers, closes, starts>>

\* A wait_for_ready without the minimum display time.
ready_wait_over_no_minimum(i) ==
    /\ i \in DOMAIN barriers
    /\ barriers[i].pc = "poll"
    /\ Pin \in rooms
    /\ ReadyWaitOver(barriers[i])
    /\ BarrierDone(i)

\* The loop ends: before the minimum display time the task sleeps for the
\* rest of it, after it the task goes on at once.
ready_wait_over(i) ==
    /\ i \in DOMAIN barriers
    /\ barriers[i].pc = "poll"
    /\ Pin \in rooms
    /\ ReadyWaitOver(barriers[i])
    /\ IF barriers[i].elapsed < MIN_DISPLAY_TIME
       THEN /\ barriers' = [barriers EXCEPT ![i].pc = "hold"]
            /\ out' = {}
            /\ UNCHANGED <<rooms, room, conn, clock, timers, closes, starts,
                           history>>
       ELSE BarrierDone(i)

\* The task wakes up from the minimum display sleep.
min_display_over(i) ==
    /\ i \in DOMAIN barriers
    /\ barriers[i].pc = "hold"
    /\ barriers[i].elapsed >= MIN_DISPLAY_TIME
    /\ Pin \in rooms
    /\ BarrierDone(i)

\* rooms[pin] raises KeyError in a task whose room left the registry: the
\* task dies where it next looks the room up.
BarrierDue(b) ==
    \/ b.pc = "start"
    \/ b.pc = "poll" /\ (Pin \notin rooms \/ ReadyWaitOver(b))
    \/ b.pc = "hold" /\ b.elapsed >= MIN_DISPLAY_TIME

barrier_key_error(i) ==
    /\ i \in DOMAIN barriers
    /\ Pin \notin rooms
    /\ BarrierDue(barriers[i])
    /\ barriers' = RemoveAt(barriers, i)
    /\ out' = {}
    /\ UNCHANGED <<rooms, room, conn, clock, timers, closes, starts, history>>

\* ----------------------------------------------------------- the sweeper
\* The test with a grace period one sweeper interval longer.
HostExpiredLate(r) ==
    /\ r.host_disconnected
    /\ r.host_disconnect_time # None
    /\ r.host_disconnect_time > GRACE_PERIOD + SWEEP_INTERVAL

HostExpired(r) ==
    /\ r.host_disconnected
    /\ r.host_disconnect_time # None
    /\ r.host_disconnect_time > GRACE_PERIOD

Expired(p) == p.disconnected /\ p.disconnect_time > GRACE_PERIOD

\* One pass of cleanup_disconnected_participants after its sleep.
cleanup_disconnected_participants ==
    /\ sweeper = 0
    /\ sweeper' = SWEEP_INTERVAL
    /\ IF Pin \notin rooms
       THEN /\ out' = {}
            /\ UNCHANGED <<rooms, room>>
       ELSE IF HostExpired(room)
       THEN /\ rooms' = rooms \ {Pin}
            /\ out' = {Ev("room_closed", 0, << >>)}
            /\ room' = room
       ELSE /\ room' = [room EXCEPT !.participants =
                            SelectSeq(@, LAMBDA p : ~Expired(p))]
            /\ out' = IF \E i \in DOMAIN room.participants :
                            Expired(room.participants[i])
                      THEN {Ev("participant_left", 0, << >>)} ELSE {}
            /\ rooms' = rooms
    /\ UNCHANGED <<conn, now, tasks, history>>

\* ------------------------------------------------------------------ time
\* A stamp that is d seconds older; more than a sweeper interval past the
\* grace period its age no longer matters.
Age(t, d) ==
    IF t = None THEN None ELSE Min(t + d, GRACE_PERIOD + SWEEP_INTERVAL + 1)

TickRoom(r, d) ==
    [r EXCEPT !.host_disconnect_time = Age(@, d),
              !.participants =
                  [i \in DOMAIN @ |->
                      [@[i] EXCEPT !.disconnect_time = Age(@, d)]]]

\* The seconds until a task is next due to run.
CloseDueIn(c) ==
    IF CloseWaitOver(c) THEN 0 ELSE CLOSE_MAX_WAIT - c.waited

BarrierDueIn(b) ==
    IF BarrierDue(b) THEN 0
    ELSE IF b.pc = "poll" THEN READY_MAX_WAIT - b.elapsed
    ELSE MIN_DISPLAY_TIME - b.elapsed

TaskDueIn ==
    {timers[i].left : i \in DOMAIN timers}
    \cup {CloseDueIn(closes[i]) : i \in DOMAIN closes}
    \cup {BarrierDueIn(barriers[i]) : i \in DOMAIN barriers}

Least(set) == CHOOSE x \in set : \A y \in set : x <= y

\* d seconds pass for the room and for every task.
Pass(d) ==
    /\ timers' = [i \in DOMAIN timers |-> [timers[i] EXCEPT !.left = @ - d]]
    /\ closes' = [i \in DOMAIN closes |-> [closes[i] EXCEPT !.waited = @ + d]]
    /\ barriers' = [i \in DOMAIN barriers |->
                       [barriers[i] EXCEPT !.elapsed = @ + d]]
    /\ room' = TickRoom(room, d)
    /\ now' = Min(now + d, MaxClock)
    /\ out' = {}
    /\ UNCHANGED <<rooms, conn, starts, history>>

\* One second passes, unless a task is due to run now.  The sweeper is not
\* running (the module was imported by a server that does not run the main
\* program).
Tick ==
    /\ \A d \in TaskDueIn : d >= 1
    /\ Pass(1)
    /\ UNCHANGED sweeper

\* Nothing happens until the next task is due.
Sleep ==
    /\ TaskDueIn # {}
    /\ Least(TaskDueIn) >= 1
    /\ Pass(Least(TaskDueIn))
    /\ UNCHANGED sweeper

\* The same with the sweeper running.
TickSweeper ==
    /\ \A d \in TaskDueIn \cup {sweeper} : d >= 1
    /\ Pass(1)
    /\ sweeper' = sweeper - 1

SleepSweeper ==
    /\ Least(TaskDueIn \cup {sweeper}) >= 1
    /\ Pass(Least(TaskDueIn \cup {sweeper}))
    /\ sweeper' = sweeper - Least(TaskDueIn \cup {sweeper})

\* ------------------------------------------------------- specifications
ClientEvent ==
    \/ handle_connect
    \/ \E s \in SidSet : handle_disconnect(s)
    \/ \E s \in SidSet, name \in Names : handle_join_room(s, name)
    \/ \E s \in SidSet, name \in Names, was_host \in BOOLEAN :
          handle_rejoin(s, name, was_host)
    \/ \E s \in SidSet, sc \in SongCounts, gc \in GamesCounts,
          o \in ProviderOutcomes : handle_start_game(s, sc, gc, o)
    \/ \E s \in SidSet : handle_start_next_game(s)
    \/ \E s \in SidSet : handle_next_question(s)
    \/ \E s \in SidSet : handle_end_game(s)
    \/ \E s \in SidSet, a \in AnswerChoices, ct \in ClientStamps :
          handle_submit_answer(s, a, ct)
    \/ \E s \in SidSet : handle_playback_started(s)
    \/ \E s \in SidSet : handle_correct_answer_displayed(s)
    \/ \E s \in SidSet : handle_standings_displayed(s)
    \/ \E s \in SidSet : handle_ready_for_next(s)

TaskStep ==
    \/ \E i \in 1 .. MaxStarts : StartGameFinish(i)
    \/ \E i \in 1 .. MaxTasks : question_timeout(i)
    \/ \E i \in 1 .. MaxTasks : show_intermediate_scores(i)
    \/ \E i \in 1 .. MaxTasks : wait_for_ready(i)
    \/ \E i \in 1 .. MaxTasks : ready_wait_over(i)
    \/ \E i \in 1 .. MaxTasks : min_display_over(i)
    \/ \E i \in 1 .. MaxTasks : barrier_key_error(i)

Next == ClientEvent \/ TaskStep \/ cleanup_disconnected_participants \/ TickSweeper

Spec == Init /\ [][Next]_vars


\* ------------------------------------------------------------ scenarios
\* The specifications below run the handlers above in the order the two
\* clients drive them: the connection that created the room is the host,
\* every later connection joins once, under its own name, before the game
\* starts.
Host == 1
Players == 2 .. 3
NameOf(s) == IF s % 2 = 0 THEN "A" ELSE "B"
Playing == Pin \in rooms /\ room.state = "playing"
Waiting == Pin \in rooms /\ room.state = "waiting"

JoinOnce ==
    \E s \in Players :
        /\ Waiting
        /\ s \notin Keys(room.participants)
        /\ handle_join_room(s, NameOf(s))

FirstPlayer == 2

JoinFirst ==
    /\ Waiting
    /\ FirstPlayer \notin Keys(room.participants)
    /\ handle_join_room(FirstPlayer, NameOf(FirstPlayer))

\* The shuffle puts the artist first in every new question.
FirstChoiceCorrect ==
    \A k \in DOMAIN room'.all_questions :
        room'.all_questions[k].correct_answer = 0

\* One game of one song, the players answering at any moment.
NextVote ==
    \/ nextSid \in Players /\ handle_connect
    \/ JoinOnce
    \/ Waiting /\ handle_start_game(Host, 1, 1, "ok")
    \/ \E i \in 1 .. MaxStarts : StartGameFinish(i)
    \/ \E s \in Players, a \in AnswerChoices, ct \in {None, 1} :
          Playing /\ handle_submit_answer(s, a, ct)
    \/ Playing /\ handle_playback_started(Host)
    \/ \E i \in 1 .. MaxTasks : question_timeout(i)
    \/ \E i \in 1 .. MaxTasks : show_intermediate_scores(i)
    \/ Sleep

SpecVote == Init /\ [][NextVote]_vars

\* ---------------------------------------------------------------- claims
Scores(r) == [i \in DOMAIN r.participants |-> r.participants[i].score]
Emitted(o, name) == \E e \in o : e.ev = name

\* C1 : a submit-answer from a participant who already has an answer in the
\* ledger of the current question index, while voting is open, is answered
\* with the "already answered" error only; the ledger keeps the original
\* answer and no score changes.
C1_DuplicateAnswerRejected ==
    [][\A s \in SidSet, a \in AnswerChoices, ct \in ClientStamps :
          ( /\ handle_submit_answer(s, a, ct)
            /\ Pin \in rooms
            /\ s \in Keys(room.participants)
            /\ ~room.voting_closed
            /\ s \in Keys(CurrentAnswers(room)) )
          => /\ out' = Error(s, ALREADY_ANSWERED)
             /\ room'.answers = room.answers
             /\ Scores(room') = Scores(room)
             /\ room'.series_scores = room.series_scores]_vars

\* A second answer was just refused while another player had scored.
C1_Witness ==
    /\ \E s \in Players : out = Error(s, ALREADY_ANSWERED)
    /\ ~room.voting_closed
    /\ \E i \in DOMAIN room.participants : room.participants[i].score > 0

\* C2 : a submit-answer that arrives while voting_closed is true is answered
\* with an error; the ledger, the scores and the rest of the room stay as
\* they were.
C2_ClosedVoteRejected ==
    [][\A s \in SidSet, a \in AnswerChoices, ct \in ClientStamps :
          ( /\ handle_submit_answer(s, a, ct)
            /\ Pin \in rooms
            /\ room.voting_closed )
          => /\ out' \in {Error(s, VOTING_ENDED), Error(s, NOT_IN_GAME)}
             /\ s \in Keys(room.participants) => out' = Error(s, VOTING_ENDED)
             /\ room' = room]_vars

\* A player who had not answered was just refused after the close.
C2_Witness ==
    /\ Pin \in rooms
    /\ room.voting_closed
    /\ \E s \in Players :
          /\ out = Error(s, VOTING_ENDED)
          /\ s \notin Keys(CurrentAnswers(room))

\* Every participant not marked disconnected has an answer for the current
\* question index.
AllConnectedAnswered(r) ==
    \A i \in DOMAIN r.participants :
        r.participants[i].disconnected
        \/ r.participants[i].sid \in Keys(CurrentAnswers(r))

Accepted(o) == Emitted(o, "answer_feedback")

StartChoices == {<<1, 1>>, <<2, 1>>, <<1, 2>>}

NextTimer ==
    \/ nextSid = FirstPlayer /\ handle_connect
    \/ JoinFirst
    \/ \E c \in StartChoices : handle_start_game(Host, c[1], c[2], "ok")
    \/ \E i \in 1 .. MaxStarts : StartGameFinish(i) /\ FirstChoiceCorrect
    \/ Playing /\ handle_playback_started(Host)
    \/ \E i \in 1 .. MaxTasks : question_timeout(i)
    \/ \E i \in 1 .. MaxTasks : show_intermediate_scores(i)
    \/ Playing /\ handle_correct_answer_displayed(FirstPlayer)
    \/ Playing /\ handle_next_question(Host)
    \/ Playing /\ handle_start_next_game(Host)
    \/ Sleep

SpecTimer == Init /\ [][NextTimer]_vars

\* The eventlet hub runs every task that is due, and time goes on.
SpecTimerFair ==
    /\ SpecTimer
    /\ WF_vars(Sleep)
    /\ WF_vars(\E i \in 1 .. MaxTasks : question_timeout(i))
    /\ WF_vars(\E i \in 1 .. MaxTasks : show_intermediate_scores(i))

\* C3 : the timeout task scheduled by playback_started wakes up 15 seconds
\* later; if the room is then still in the registry, still on the question
\* the task was scheduled for and the vote is open, the vote is closed and
\* the correct answer is broadcast.  Hence a question with a pending timeout
\* task is eventually closed, left or deleted.
C3_TimeoutClosesVoting ==
    /\ [](\A i \in DOMAIN timers : timers[i].left \in 0 .. QUESTION_TIMEOUT)
    /\ [][\A i \in DOMAIN timers :
             ( /\ question_timeout(i)
               /\ Pin \in rooms
               /\ timers[i].epoch = hist.epoch
               /\ room.current_question # NoQuestion
               /\ ~room.voting_closed )
             => /\ timers[i].left = 0
                /\ room'.voting_closed
                /\ Emitted(out', "show_correct_answer")]_vars
    /\ \A q \in 0 .. MaxQuestions :
          (\E i \in DOMAIN timers : timers[i].q = q /\ room.question_index = q)
          ~> (Pin \notin rooms \/ room.question_index # q \/ room.voting_closed)

\* The timeout task has just closed the vote of the question it was
\* scheduled for.
C3_Witness ==
    /\ Pin \in rooms
    /\ room.voting_closed
    /\ hist.timeouts = 1
    /\ hist.closes = 1
    /\ Emitted(out, "question_timeout")
    /\ Emitted(out, "show_correct_answer")

\* C5 : whatever the number of playback_started events and timeout tasks on
\* one question, the close routine runs at most once for it, so the reveal
\* and the standings go out at most once; a timeout task that wakes up on a
\* closed question changes nothing and leaves the acknowledgments alone.
C5_CloseOncePerQuestion ==
    /\ [](hist.closes <= 1 /\ hist.standings <= 1)
    /\ [][\A i \in DOMAIN timers :
             ( /\ question_timeout(i)
               /\ Pin \in rooms
               /\ room.voting_closed )
             => /\ room' = room
                /\ closes' = closes
                /\ out' = {}]_vars

\* The second timeout task of a question woke up after the first had closed
\* the vote and the player had acknowledged the reveal.
C5_Witness ==
    /\ Pin \in rooms
    /\ room.voting_closed
    /\ hist.timeouts = 2
    /\ hist.closes = 1
    /\ room.correct_answer_acks # {}

\* C6 as stated : a timeout task that wakes up after the room left the
\* question it was scheduled for (next question, next game, restart)
\* changes nothing and emits nothing.
C6_StaleTimeoutNoOp ==
    [][\A i \in DOMAIN timers :
          ( /\ question_timeout(i)
            /\ timers[i].epoch # hist.epoch )
          => /\ room' = room
             /\ closes' = closes
             /\ out' = {}]_vars

\* One player in a game of two songs or a series of two games of one song:
\* the player answers, the host shows the standings once the vote is closed,
\* advances and starts the next game at any moment.
SeriesChoices == {<<2, 1>>, <<1, 2>>}

NextSeries ==
    \/ nextSid = FirstPlayer /\ handle_connect
    \/ JoinFirst
    \/ \E c \in SeriesChoices :
          Waiting /\ handle_start_game(Host, c[1], c[2], "ok")
    \/ \E i \in 1 .. MaxStarts : StartGameFinish(i) /\ FirstChoiceCorrect
    \/ \E a \in AnswerChoices :
          Playing /\ handle_submit_answer(FirstPlayer, a, None)
    \/ Playing /\ ~room.voting_closed /\ timers = << >>
          /\ handle_playback_started(Host)
    \/ \E i \in 1 .. MaxTasks : question_timeout(i)
    \/ \E i \in 1 .. MaxTasks : show_intermediate_scores(i)
    \/ Playing /\ room.voting_closed /\ handle_standings_displayed(Host)
    \/ Playing /\ handle_ready_for_next(FirstPlayer)
    \/ \E i \in 1 .. MaxTasks : wait_for_ready(i)
    \/ \E i \in 1 .. MaxTasks : ready_wait_over(i)
    \/ \E i \in 1 .. MaxTasks : min_display_over(i)
    \/ Playing /\ handle_next_question(Host)
    \/ Playing /\ handle_start_next_game(Host)
    \/ Sleep

SpecSeries == Init /\ [][NextSeries]_vars

\* C7 as stated : a standings barrier that completes after the room left
\* the question it was started for emits nothing and changes nothing, the
\* series scores included.
C7_StaleBarrierNoOp ==
    [][\A i \in DOMAIN barriers :
          ( /\ ready_wait_over(i) \/ min_display_over(i)
            /\ barriers[i].epoch # hist.epoch )
          => /\ out' = {}
             /\ room' = room]_vars

\* C8 as stated : the scores of a game are folded into the series scores at
\* most once, and once the first game is folded the series score of every
\* participant is the score of that game.
C8_GameFoldedOnce ==
    Pin \in rooms =>
        /\ hist.folds <= 1
        /\ (room.current_game_number = 1 /\ hist.folds = 1) =>
              \A i \in DOMAIN room.participants :
                  GetOr(room.series_scores, room.participants[i].sid, 0)
                      = room.participants[i].score

\* C9 : start_next_game from the host sets every score to 0, keeps the
\* series scores, adds one to the game number, sets the question index to 0
\* and empties the ledger; when the new game number is in the map of the
\* generated games, the questions become its slice of all_questions.
C9_StartNextGameFrame ==
    [][\A s \in SidSet :
          ( /\ handle_start_next_game(s)
            /\ Pin \in rooms
            /\ room.host_sid = s )
          => LET g == room.current_game_number + 1
             IN  /\ Keys(room'.participants) = Keys(room.participants)
                 /\ \A i \in DOMAIN room'.participants :
                       room'.participants[i].score = 0
                 /\ room'.series_scores = room.series_scores
                 /\ room'.current_game_number = g
                 /\ room'.question_index = 0
                 /\ room'.answers = EmptyDict
                 /\ g \in DOMAIN room.game_questions_map =>
                       /\ Len(room'.questions) = Len(room.game_questions_map[g])
                       /\ \A k \in DOMAIN room'.questions :
                             room'.questions[k] =
                               room.all_questions[room.game_questions_map[g][k] + 1]
                       /\ room'.all_questions = room.all_questions]_vars

\* The second game has just started: the player's score of the first game
\* is in the series scores and the score of the game is back at 0.
C9_Witness ==
    /\ Playing
    /\ room.current_game_number = 2
    /\ Emitted(out, "game_started")
    /\ room.question_index = 0
    /\ room.questions = <<room.all_questions[2]>>
    /\ \E i \in DOMAIN room.participants :
          /\ room.participants[i].score = 0
          /\ GetOr(room.series_scores, room.participants[i].sid, 0) > 0

\* Two players, who may have chosen the same name, in a game of one song:
\* one of them at a time loses the connection, and a connection that is not
\* in the roster sends rejoin_room.
OneLeaves ==
    \E s \in Players :
        /\ Pin \in rooms
        /\ s \in Keys(room.participants)
        /\ \A i \in DOMAIN room.participants : ~room.participants[i].disconnected
        /\ handle_disconnect(s)

\* A participant sends rejoin_room from the connection it is in the roster
\* with.
RejoinAgain ==
    \E s \in Players :
        /\ Pin \in rooms
        /\ s \in Keys(room.participants)
        /\ Get(room.participants, s).score < MaxScore
        /\ handle_rejoin(s, Get(room.participants, s).name, FALSE)

NextRejoin ==
    \/ handle_connect
    \/ \E s \in Players, name \in Names :
          Waiting /\ s \notin Keys(room.participants)
          /\ handle_join_room(s, name)
    \/ Waiting /\ handle_start_game(Host, 1, 1, "ok")
    \/ \E i \in 1 .. MaxStarts : StartGameFinish(i) /\ FirstChoiceCorrect
    \/ \E s \in Players, a \in AnswerChoices :
          Playing /\ handle_submit_answer(s, a, None)
    \/ OneLeaves
    \/ \E s \in SidSet \ {Host}, name \in Names :
          Pin \in rooms /\ s \notin Keys(room.participants)
          /\ handle_rejoin(s, name, FALSE)
    \/ RejoinAgain

SpecRejoin == Init /\ [][NextRejoin]_vars

\* C10 as stated : when a participant who lost the connection rejoins
\* under the same name from a new connection, the score and the series score
\* under the new key are those held under the old key when the connection
\* was lost, the old key is gone from the roster and the new entry is not
\* marked disconnected.
C10_RejoinKeepsScores ==
    [][\A s \in SidSet, name \in Names, old \in DOMAIN hist.left :
          ( /\ handle_rejoin(s, name, FALSE)
            /\ Emitted(out', "rejoin_success")
            /\ old # s
            /\ old \in Keys(room.participants)
            /\ Get(room.participants, old).disconnected
            /\ Get(room.participants, old).name = name )
          => /\ s \in Keys(room'.participants)
             /\ Held(room', s) = hist.left[old]
             /\ old \notin Keys(room'.participants)
             /\ ~Get(room'.participants, s).disconnected]_vars

\* C11 as stated : after a successful participant rejoin, the answer that
\* the ledger of the current question held under the old key is held under
\* the key of the sender, with its option and timestamp, so that the sender
\* has answered and another submit_answer is a duplicate.
C11_RejoinCarriesAnswer ==
    [][\A s \in SidSet, name \in Names :
          ( /\ handle_rejoin(s, name, FALSE)
            /\ Emitted(out', "rejoin_success")
            /\ OldSid(room, name) \in Keys(CurrentAnswers(room)) )
          => LET was == Get(CurrentAnswers(room), OldSid(room, name))
             IN  /\ s \in Keys(CurrentAnswers(room'))
                 /\ Get(CurrentAnswers(room'), s).answer = was.answer
                 /\ Get(CurrentAnswers(room'), s).timestamp = was.timestamp
                 /\ HasAnswered(room', s)]_vars

\* The host and one player in a game of one song, with the sweeper running:
\* the host loses the connection, seconds pass, and a new connection sends
\* rejoin_room as the host.
LastSid == FirstPlayer + 1

NextHost ==
    \/ nextSid <= LastSid /\ handle_connect
    \/ JoinFirst
    \/ Waiting /\ handle_start_game(room.host_sid, 1, 1, "ok")
    \/ \E i \in 1 .. MaxStarts : StartGameFinish(i) /\ FirstChoiceCorrect
    \/ Playing /\ handle_submit_answer(FirstPlayer, 0, None)
    \/ handle_disconnect(Host)
    \/ Pin \in rooms /\ handle_rejoin(LastSid, NameOf(FirstPlayer), TRUE)
    \/ cleanup_disconnected_participants
    \/ TickSweeper

SpecHost == Init /\ [][NextHost]_vars

\* The host and one player in the waiting room, with the sweeper running:
\* any of the connections is lost, seconds pass, and a new connection sends
\* rejoin_room as the host or under the player's name.
NextSweep ==
    \/ nextSid <= LastSid /\ handle_connect
    \/ JoinFirst
    \/ \E s \in {Host, FirstPlayer} : handle_disconnect(s)
    \/ \E was_host \in BOOLEAN :
          Pin \in rooms /\ handle_rejoin(LastSid, NameOf(FirstPlayer), was_host)
    \/ cleanup_disconnected_participants
    \/ TickSweeper

SpecSweep == Init /\ [][NextSweep]_vars

\* C12 : a disconnect leaves the registry alone and the room leaves the
\* registry only with its host disconnected for more than the grace period;
\* a rejoin_room with was_host makes the sender the host, clears
\* host_disconnected and host_disconnect_time and changes nothing else of
\* the room, so that the sweeper finds no expired host afterwards.
C12_HostRejoinKeepsRoom ==
    [][ /\ \A s \in SidSet : handle_disconnect(s) => rooms' = rooms
        /\ (Pin \in rooms /\ Pin \notin rooms')
           => /\ room.host_disconnected
              /\ room.host_disconnect_time > GRACE_PERIOD
        /\ \A s \in SidSet, name \in Names :
              (handle_rejoin(s, name, TRUE) /\ Pin \in rooms)
              => /\ rooms' = rooms
                 /\ room' = [room EXCEPT !.host_sid = s,
                                         !.host_disconnected = FALSE,
                                         !.host_disconnect_time = None]
                 /\ ~HostExpired(room') ]_vars

\* The host has just rejoined, 29 seconds after the disconnect, in a game
\* where the player has scored.
C12_Witness ==
    /\ Playing
    /\ hist.away = GRACE_PERIOD - 1
    /\ room.host_sid = LastSid
    /\ ~room.host_disconnected
    /\ Emitted(out, "host_reconnected")
    /\ \E i \in DOMAIN room.participants : room.participants[i].score > 0

\* C13 as stated : 31 seconds after the host was disconnected the room is
\* out of the registry (or the sweeper is about to run).
C13_DeletedAt31 ==
    (room.host_disconnected /\ room.host_disconnect_time > GRACE_PERIOD)
    => (Pin \notin rooms \/ sweeper = 0)

\* C13 : the sweeper, which wakes up every 5 seconds, deletes the room and
\* broadcasts room_closed the first time it finds the host disconnected for
\* more than 30 seconds; a room whose host does not rejoin is therefore in
\* the registry for at most 35 seconds after the disconnect.
C13_DeletedBySweep ==
    /\ [](Pin \in rooms /\ room.host_disconnected
            => room.host_disconnect_time <= GRACE_PERIOD + SWEEP_INTERVAL)
    /\ [][ ( /\ cleanup_disconnected_participants
              /\ Pin \in rooms
              /\ room.host_disconnected
              /\ room.host_disconnect_time > GRACE_PERIOD )
            => /\ Pin \notin rooms'
               /\ Emitted(out', "room_closed") ]_vars

\* The sweeper has just deleted the room, 35 seconds after the disconnect.
C13_Witness ==
    /\ Pin \notin rooms
    /\ Emitted(out, "room_closed")
    /\ room.host_disconnected
    /\ room.host_disconnect_time = GRACE_PERIOD + SWEEP_INTERVAL

\* C14 : a key leaves the roster only in a successful participant rejoin or
\* in a sweep, and then only keys marked disconnected for more than the
\* grace period; the room leaves the registry only in a sweep that finds
\* its host disconnected for more than the grace period; a disconnect
\* removes neither.
C14_OnlySweeperRemoves ==
    [][ /\ Keys(room.participants) \ Keys(room'.participants) # {}
           => \/ \E s \in SidSet, name \in Names :
                    /\ handle_rejoin(s, name, FALSE)
                    /\ Emitted(out', "rejoin_success")
              \/ /\ cleanup_disconnected_participants
                 /\ \A k \in Keys(room.participants) \ Keys(room'.participants) :
                       /\ Get(room.participants, k).disconnected
                       /\ Get(room.participants, k).disconnect_time > GRACE_PERIOD
        /\ (Pin \in rooms /\ Pin \notin rooms')
           => /\ cleanup_disconnected_participants
              /\ room.host_disconnected
              /\ room.host_disconnect_time > GRACE_PERIOD
        /\ \A s \in SidSet :
              handle_disconnect(s)
              => /\ rooms' = rooms
                 /\ Keys(room'.participants) = Keys(room.participants) ]_vars

\* The sweeper has just removed the player, who had lost the connection.
C14_Witness ==
    /\ Pin \in rooms
    /\ Emitted(out, "participant_left")
    /\ room.participants = << >>
    /\ FirstPlayer \notin connected

\* The host and a player, each of them sending the events that start,
\* advance and end a game, and the track fetch failing or not.
Senders == {Host, FirstPlayer}

NextStart ==
    \/ nextSid = FirstPlayer /\ handle_connect
    \/ JoinFirst
    \/ \E s \in Senders, c \in StartChoices, o \in ProviderOutcomes :
          handle_start_game(s, c[1], c[2], o)
    \/ \E i \in 1 .. MaxStarts : StartGameFinish(i) /\ FirstChoiceCorrect
    \/ \E a \in AnswerChoices :
          Playing /\ handle_submit_answer(FirstPlayer, a, None)
    \/ \E s \in Senders : handle_next_question(s)
    \/ \E s \in Senders : handle_start_next_game(s)
    \/ \E s \in Senders : handle_end_game(s)

SpecStart == Init /\ [][NextStart]_vars

\* C15 : start_game, next_question, start_next_game and end_game from a
\* connection that is not host_sid are answered with the "only host" error
\* and change nothing of the room; no game start is under way afterwards
\* that was not before.
C15_OnlyHostControls ==
    [][\A s \in SidSet :
          ( /\ Pin \in rooms
            /\ room.host_sid # s
            /\ \/ \E sc \in SongCounts, gc \in GamesCounts,
                     o \in ProviderOutcomes : handle_start_game(s, sc, gc, o)
               \/ handle_next_question(s)
               \/ handle_start_next_game(s)
               \/ handle_end_game(s) )
          => /\ out' = Error(s, NOT_HOST)
             /\ room' = room
             /\ starts' = starts]_vars

\* A player has just been refused in a game in which somebody has scored.
C15_Witness ==
    /\ Playing
    /\ \E s \in Players :
          /\ s \in Keys(room.participants)
          /\ out = Error(s, NOT_HOST)
    /\ \E i \in DOMAIN room.participants : room.participants[i].score > 0

\* C16 : when the track fetch of start_game fails the host gets an error,
\* no question is generated or sent and the room is as it was; a room in
\* state waiting has question index 0 and no questions.
C16_ProviderFailureKeepsWaiting ==
    [][\A s \in SidSet, sc \in SongCounts, gc \in GamesCounts,
          o \in ProviderOutcomes \ {"ok"} :
          ( /\ handle_start_game(s, sc, gc, o)
            /\ Pin \in rooms
            /\ room.host_sid = s )
          => /\ Error(s, PROVIDER_FAILED) \subseteq out'
             /\ ~Emitted(out', "game_started")
             /\ ~Emitted(out', "new_question")
             /\ ~Emitted(out', "new_question_participant")
             /\ room' = room
             /\ starts' = starts
             /\ Waiting => /\ room'.state = "waiting"
                            /\ room'.question_index = 0
                            /\ room'.questions = << >>
                            /\ room'.all_questions = << >>]_vars

\* The host of a waiting room with a player in it has just got the error.
C16_Witness ==
    /\ Waiting
    /\ room.participants # << >>
    /\ starts = << >>
    /\ Error(room.host_sid, PROVIDER_FAILED) \subseteq out

\* ------------------------------------------------------------- scoring
\* A game of total songs at its n-th question, with the first player and
\* prior other players in the room; the prior players have answered the
\* question correctly one after the other, the k-th with timestamp k.
RECURSIVE PriorAnswered(_, _)
PriorAnswered(r, k) ==
    IF k = 0 THEN r
    ELSE LET r1 == PriorAnswered(r, k - 1)
             sid == FirstPlayer + k
         IN  check_answer(record_answer(r1, sid, 0, k, 0), sid, 0)

RECURSIVE Joined(_, _)
Joined(r, k) ==
    IF k = 0 THEN add_participant(r, FirstPlayer, NameOf(FirstPlayer))
    ELSE add_participant(Joined(r, k - 1), FirstPlayer + k, "B")

ScoreRoom(total, n, prior) ==
    LET r0 == Joined(NewRoom(Host), prior)
        r1 == StartFirstGame(r0, total, 1, [k \in 1 .. total |-> 0])
        r2 == [r1 EXCEPT !.question_index = n - 1,
                         !.current_question = r1.questions[n]]
    IN  PriorAnswered(send_question(r2, 0), prior)

InitScore ==
    /\ rooms = {Pin}
    /\ \E total \in 1 .. MaxSongCount, prior \in 0 .. MaxPrior :
          \E n \in 1 .. total : room = ScoreRoom(total, n, prior)
    /\ connected = {Host} \cup {FirstPlayer + k : k \in 0 .. MaxPrior}
    /\ nextSid = FirstPlayer + MaxPrior + 1
    /\ now = 0
    /\ sweeper = SWEEP_INTERVAL
    /\ timers = << >>
    /\ closes = << >>
    /\ barriers = << >>
    /\ starts = << >>
    /\ hist = [epoch |-> 0, timeouts |-> 0, closes |-> 0, standings |-> 0,
               folds |-> 0, left |-> EmptyDict, away |-> None,
               played |-> FALSE, ready |-> {}, late |-> EmptyDict,
               superseded |-> EmptyDict]
    /\ out = {}

\* The first player answers, delta seconds after the fastest.
NextScore ==
    \E a \in AnswerChoices, delta \in 0 .. MaxDelta :
        /\ FirstPlayer \notin Keys(CurrentAnswers(room))
        /\ handle_submit_answer(FirstPlayer, a, delta)

SpecScore == InitScore /\ [][NextScore]_vars

\* The multiplier of question n of the game the room is in.
MultiplierAt(n) ==
    get_score_multiplier([room EXCEPT !.question_index = n - 1])

\* C17 : in a game of any length from 1 to 30 the multiplier does not
\* decrease from one question to the next and is 1, 2 or 4.
C17_MultiplierMonotone ==
    \A n \in 1 .. Len(room.questions) :
        /\ MultiplierAt(n) \in {1, 2, 4}
        /\ n < Len(room.questions) => MultiplierAt(n) <= MultiplierAt(n + 1)

\* A game of 30 songs in which an answer was scored in the middle band.
C17_Witness ==
    /\ Len(room.questions) = MaxSongCount
    /\ MultiplierAt(room.question_index + 1) = 2
    /\ MultiplierAt(MaxSongCount) = 4
    /\ FirstPlayer \in Keys(CurrentAnswers(room))
    /\ Get(room.participants, FirstPlayer).score > 0

\* The band of question n in a game of total questions: the first half,
\* the part up to four fifths, the rest.
Band(total, n) ==
    IF 2 * n <= total THEN 1
    ELSE IF 5 * n <= 4 * total THEN 2
    ELSE 4

\* The first player is the only one who answered the question correctly,
\* hence of rank 1 and with no delay to the fastest.
AloneCorrect ==
    /\ Len(CorrectAnswers(room)) = 1
    /\ CorrectAnswers(room)[1].sid = FirstPlayer

BandsAndExamples ==
    /\ \A n \in 1 .. Len(room.questions) :
          MultiplierAt(n) = Band(Len(room.questions), n)
    /\ (Len(room.questions) = 10 /\ AloneCorrect) =>
          /\ room.question_index + 1 = 6 =>
                Get(room.participants, FirstPlayer).score = 200
          /\ room.question_index + 1 = 9 =>
                Get(room.participants, FirstPlayer).score = 400

\* C18 as stated : the multiplier is 1 while n <= floor(total * 0.5), 2
\* while n <= floor(total * 0.8) and 4 after it, the first question of
\* every game has multiplier 1, and in a game of 10 questions a correct
\* answer of rank 1 without delay gets 200 on question 6 and 400 on
\* question 9.
C18_FirstQuestionSingle ==
    /\ BandsAndExamples
    /\ Len(room.questions) >= 1 => MultiplierAt(1) = 1

\* C18 : the same with the first question having multiplier 1 in every
\* game of two questions or more (the only question of a game of one is
\* past both thresholds and has multiplier 4).
C18_Bands ==
    /\ BandsAndExamples
    /\ Len(room.questions) >= 2 => MultiplierAt(1) = 1
    /\ Len(room.questions) = 1 => MultiplierAt(1) = 4

\* The sixth question of a game of ten was answered by the first player
\* alone.
C18_Witness ==
    /\ Len(room.questions) = 10
    /\ room.question_index + 1 = 6
    /\ AloneCorrect
    /\ Get(room.participants, FirstPlayer).score > 0

\* The score of a participant in a room.
ScoreOf(r, s) == Get(r.participants, s).score

\* v is an integer nearest to num / 1000.
Nearest(v, num) ==
    /\ 2 * (1000 * v - num) <= 1000
    /\ 2 * (num - 1000 * v) <= 1000

\* C19 : a correct answer of rank r, dt seconds after the fastest correct
\* one, adds round(100 * (1 - 0.10 * (r - 1)) * max(1 - 0.12 * (dt / 15),
\* 0.85)) times the multiplier of the question to the score of the one who
\* gave it and nothing to any other score; rank 2 with dt = 5 at
\* multiplier 1 adds 86.
C19_SpeedPointsAwarded ==
    [][\A a \in AnswerChoices, delta \in 0 .. MaxDelta :
          ( /\ handle_submit_answer(FirstPlayer, a, delta)
            /\ Pin \in rooms
            /\ FirstPlayer \in Keys(room.participants)
            /\ ~room.voting_closed
            /\ FirstPlayer \notin Keys(CurrentAnswers(room))
            /\ a = room.current_question.correct_answer )
          => LET before == {i \in DOMAIN CurrentAnswers(room) :
                              CurrentAnswers(room)[i].answer = a}
                 stamps == {CurrentAnswers(room)[i].timestamp : i \in before}
                 r == 1 + Cardinality({i \in before :
                         CurrentAnswers(room)[i].timestamp <= delta})
                 dt == delta - (CHOOSE m \in stamps \cup {delta} :
                                  \A x \in stamps \cup {delta} : m <= x)
                 num == (100 - 10 * (r - 1)) * Max(1000 - 8 * dt, 850)
                 mult == Band(Len(room.questions), room.question_index + 1)
                 award == ScoreOf(room', FirstPlayer) - ScoreOf(room, FirstPlayer)
             IN  /\ \E v \in -S .. S : Nearest(v, num) /\ award = v * mult
                 /\ (r = 2 /\ dt = 5 /\ mult = 1) => award = 86
                 /\ \A s \in Keys(room.participants) \ {FirstPlayer} :
                       ScoreOf(room', s) = ScoreOf(room, s)]_vars

\* The first player was second, five seconds after the fastest, on a
\* question of multiplier 1, and has 86 points.
C19_Witness ==
    /\ Len(CorrectAnswers(room)) = 2
    /\ CorrectAnswers(room)[2].sid = FirstPlayer
    /\ CorrectAnswers(room)[2].timestamp - CorrectAnswers(room)[1].timestamp = 5
    /\ MultiplierAt(room.question_index + 1) = 1
    /\ ScoreOf(room, FirstPlayer) = 86

\* What the current question has added to the score of s so far.
Awarded(r, s) == ScoreOf(r, s) - r.question_start_scores[s]

\* C20 : the points a correct answer got are those of its rank among all
\* the correct answers of the question in the order of their timestamps,
\* whatever the order in which they arrived: with some delay d to the
\* fastest, the award is that of the rank the answer has in the ledger.
\* No two answers then have the same rank, and only the one with the
\* earliest timestamp has the award of rank 1.
C20_RankByTimestamp ==
    \A s \in Keys(CorrectAnswers(room)) :
        \E d \in 0 .. MaxDelta :
            Awarded(room, s) =
                SpeedPoints(RankOf(CorrectAnswers(room), s), d)
                    * get_score_multiplier(room)

\* C21 : get_scores returns every participant of the roster once, the
\* higher score first and equal scores in the order of the roster; the
\* ranking broadcast by the handler that has just run is the one a call on
\* the state it left returns.
C21_ScoresSorted ==
    LET g == get_scores(room)
    IN  /\ Len(g) = Len(room.participants)
        /\ \A i \in DOMAIN room.participants :
              \E j \in DOMAIN g : g[j] = room.participants[i]
        /\ \A i, j \in DOMAIN g :
              i < j =>
                \/ g[i].score > g[j].score
                \/ /\ g[i].score = g[j].score
                   /\ Pos(room.participants, g[i].sid)
                        < Pos(room.participants, g[j].sid)
        /\ \A e \in out :
              e.ev = "scores_updated" =>
                e.arg = [i \in DOMAIN g |-> g[i].sid]

\* The first player has the score of a player behind it in the roster, a
\* third player has more, and the ranking has just been broadcast.
C21_Witness ==
    /\ Emitted(out, "scores_updated")
    /\ \E i, j \in DOMAIN room.participants :
          /\ 1 < i
          /\ room.participants[i].score = room.participants[1].score
          /\ room.participants[1].score > 0
          /\ room.participants[j].score > room.participants[1].score

\* --------------------------------------------------------- the ledger
\* A call of Room.record_answer on the room, as a caller without the
\* check of handle_submit_answer makes it.
record_answer_call(s, answer, client_timestamp) ==
    Reply(record_answer(room, s, answer, client_timestamp, now), {})

\* Two players in a game of one or two songs; the method is called for
\* them at any moment and the host advances.
NextLedger ==
    \/ nextSid \in Players /\ handle_connect
    \/ JoinOnce
    \/ \E c \in StartChoices :
          Waiting /\ handle_start_game(Host, c[1], c[2], "ok")
    \/ \E i \in 1 .. MaxStarts : StartGameFinish(i) /\ FirstChoiceCorrect
    \/ \E s \in Players, a \in AnswerChoices, ct \in ClientStamps :
          /\ Playing
          /\ s \in Keys(room.participants)
          /\ record_answer_call(s, a, ct)
    \/ Playing /\ handle_next_question(Host)

SpecLedger == Init /\ [][NextLedger]_vars

\* C22 as stated : a second call of record_answer for an identity that
\* has an entry for the current question is refused; the entry keeps the
\* option and the timestamp of the first call and stays the only one of
\* that identity.
C22_SecondRecordRefused ==
    [][\A s \in Players, a \in AnswerChoices, ct \in ClientStamps :
          ( /\ record_answer_call(s, a, ct)
            /\ s \in Keys(CurrentAnswers(room)) )
          => /\ Cardinality({i \in DOMAIN CurrentAnswers(room') :
                               CurrentAnswers(room')[i].sid = s}) = 1
             /\ Get(CurrentAnswers(room'), s) = Get(CurrentAnswers(room), s)]_vars

\* ------------------------------------------------ what participants see
\* The events of o that reach a connection other than host: those sent to
\* it, to the socket room, or to the socket room without the host.
SeenByOthers(o, host) == {e \in o : e.to # host}

\* The room with another question in the place of the current one.
WithQuestion(r, q) ==
    [r EXCEPT !.current_question = q,
              !.questions = [k \in DOMAIN @ |->
                               IF k = r.question_index + 1 THEN q ELSE @[k]]]

\* C23 : the question as sent to the participants carries the number and
\* the total (and the colours of the room) and is the same whatever the
\* track, the order of the options and the index of the right one; the
\* event that carries those goes to host_sid, as it is when the question
\* is sent, and to nobody else.
C23_QuestionHiddenFromPlayers ==
    /\ \A e \in out :
          /\ e.ev = "new_question" => Pin \in rooms /\ e.to = room.host_sid
          /\ e.ev = "new_question_participant" =>
                e.arg = <<room.question_index + 1, Len(room.questions)>>
    /\ (Pin \in rooms /\ room.current_question # NoQuestion) =>
          \A track \in 1 .. MaxQuestions, correct \in CorrectChoices :
             LET q == [track |-> track, correct_answer |-> correct]
             IN  SeenByOthers(SendQuestionOut(WithQuestion(room, q)),
                              room.host_sid)
                   = SeenByOthers(SendQuestionOut(room), room.host_sid)

\* The question has just been sent in a room whose host is no longer the
\* connection that created it.
C23_Witness ==
    /\ Playing
    /\ room.host_sid = LastSid
    /\ \E e \in out : e.ev = "new_question" /\ e.to = LastSid
    /\ Emitted(out, "new_question_participant")

\* ------------------------------------------------------ bounded waits
\* One player and a host that follows the protocol of the pages: playback
\* once per question, the standings shown once the server sent them, the
\* next question or game asked for once the barrier has spoken.  The
\* player answers and acknowledges or not, at any moment.
Idle == timers = << >> /\ closes = << >> /\ barriers = << >>

NextWait ==
    \/ nextSid = FirstPlayer /\ handle_connect
    \/ JoinFirst
    \/ \E c \in SeriesChoices :
          Waiting /\ handle_start_game(Host, c[1], c[2], "ok")
    \/ \E i \in 1 .. MaxStarts : StartGameFinish(i) /\ FirstChoiceCorrect
    \/ \E a \in AnswerChoices :
          Playing /\ handle_submit_answer(FirstPlayer, a, None)
    \/ Playing /\ ~room.voting_closed /\ Idle /\ handle_playback_started(Host)
    \/ \E i \in 1 .. MaxTasks : question_timeout(i)
    \/ \E i \in 1 .. MaxTasks : show_intermediate_scores(i)
    \/ Playing /\ room.voting_closed /\ handle_correct_answer_displayed(FirstPlayer)
    \/ Playing /\ room.voting_closed /\ Idle /\ hist.standings = 1
          /\ handle_standings_displayed(Host)
    \/ Playing /\ barriers # << >> /\ handle_ready_for_next(FirstPlayer)
    \/ \E i \in 1 .. MaxTasks : wait_for_ready(i)
    \/ \E i \in 1 .. MaxTasks : ready_wait_over(i)
    \/ \E i \in 1 .. MaxTasks : min_display_over(i)
    \/ Playing /\ Emitted(out, "advance_question") /\ handle_next_question(Host)
    \/ Playing /\ Emitted(out, "game_ended") /\ handle_start_next_game(Host)
    \/ Sleep

SpecWait == Init /\ [][NextWait]_vars

\* The same with the eventlet hub running every task that is due and the
\* time going on; nothing is assumed of the clients.
SpecWaitFair ==
    /\ SpecWait
    /\ WF_vars(Sleep)
    /\ WF_vars(\E i \in 1 .. MaxTasks : question_timeout(i))
    /\ WF_vars(\E i \in 1 .. MaxTasks : show_intermediate_scores(i))
    /\ WF_vars(\E i \in 1 .. MaxTasks : wait_for_ready(i))
    /\ WF_vars(\E i \in 1 .. MaxTasks : ready_wait_over(i))
    /\ WF_vars(\E i \in 1 .. MaxTasks : min_display_over(i))

\* The barrier task has just spoken.
BarrierSpoke ==
    \/ Emitted(out, "advance_question")
    \/ Emitted(out, "game_ended")
    \/ Emitted(out, "series_ended")

\* C24 : a close routine in its wait loop eventually sends the standings
\* to the host, and a barrier task eventually emits advance_question,
\* game_ended or series_ended, whether or not any participant ever
\* acknowledges.
C24_WaitsEnd ==
    /\ (closes # << >>) ~> Emitted(out, "show_intermediate_scores")
    /\ (barriers # << >>) ~> BarrierSpoke

\* The standings went out after the full wait with no acknowledgment of
\* the player in the room.
C24_Witness ==
    /\ Playing
    /\ room.participants # << >>
    /\ room.voting_closed
    /\ room.correct_answer_acks = {}
    /\ Emitted(out, "show_intermediate_scores")

\* ------------------------------------------------- the end of a game
\* The barrier task i has just finished.
BarrierCompletes(i) ==
    /\ ready_wait_over(i) \/ min_display_over(i)
    /\ Len(barriers') < Len(barriers)

\* C25 as stated : when the barrier completes on the last question of a
\* game and the game number equals games_in_series, the state becomes
\* ended and series_ended is broadcast; otherwise game_ended is broadcast
\* with the number of the game, the state stays as it is and no question
\* is sent.  The game number grows only by start_next_game from the host.
C25_LastQuestionBarrier ==
    [][/\ \A i \in DOMAIN barriers :
            ( /\ BarrierCompletes(i)
              /\ Pin \in rooms
              /\ room.question_index + 1 >= Len(room.questions) )
            => IF room.current_game_number = room.games_in_series
               THEN /\ room'.state = "ended"
                    /\ Ev("series_ended", 0, <<room.games_in_series>>) \in out'
               ELSE /\ Ev("game_ended", 0, <<room.current_game_number,
                                             room.games_in_series>>) \in out'
                    /\ room'.state = room.state
                    /\ room'.current_game_number = room.current_game_number
                    /\ ~Emitted(out', "new_question")
                    /\ ~Emitted(out', "new_question_participant")
       /\ room'.current_game_number > room.current_game_number
            => handle_start_next_game(room.host_sid)]_vars

\* ------------------------------------------------- the question index
\* The host alone, starting games, advancing, starting the next game,
\* ending the game and showing the standings in any order, with the
\* barrier tasks running in between.  With nobody on the roster the loop
\* of wait_for_ready is over before it starts.
NextGame ==
    \/ \E c \in StartChoices : handle_start_game(Host, c[1], c[2], "ok")
    \/ \E i \in 1 .. MaxStarts : StartGameFinish(i) /\ FirstChoiceCorrect
    \/ handle_next_question(Host)
    \/ handle_start_next_game(Host)
    \/ handle_end_game(Host)
    \/ handle_standings_displayed(Host)
    \/ \E i \in 1 .. MaxTasks : wait_for_ready(i)
    \/ \E i \in 1 .. MaxTasks : min_display_over(i)
    \/ Sleep

SpecGame == Init /\ [][NextGame]_vars

\* C26 : while the state is playing the question index is that of one of
\* the questions of the game.
C26_IndexInRange ==
    (Pin \in rooms /\ room.state = "playing") =>
        /\ 0 <= room.question_index
        /\ room.question_index < Len(room.questions)

\* The room is playing the second question of a game after a start of the
\* next game that found no such game, with a barrier still waiting.
C26_Witness ==
    /\ Playing
    /\ room.question_index = 1
    /\ room.current_game_number > room.games_in_series
    /\ barriers # << >>

\* ------------------------------------------- the start of a question
\* C27 as stated : question_start_time is set when playback_started is
\* handled and is left alone when a question is sent; the response time
\* reported for an answer is the time since then.
C27_StartTimeAtPlayback ==
    [][/\ Emitted(out', "new_question") =>
            room'.question_start_time = room.question_start_time
       /\ \A s \in SidSet :
            handle_playback_started(s) => room'.question_start_time = now
       /\ \A e \in out' :
            e.ev = "player_answered" =>
               e.arg[2] = ResponseTime(room', now)]_vars

\* C28 as stated : sending a question starts no timeout task, and on a
\* question for which no playback_started was handled a timeout task
\* that wakes up closes nothing, however late.
C28_NoTimerWithoutPlayback ==
    [][/\ Emitted(out', "new_question") => timers' = timers
       /\ \A i \in DOMAIN timers :
            ( /\ question_timeout(i)
              /\ ~hist.played )
            => /\ room'.voting_closed = room.voting_closed
               /\ ~Emitted(out', "question_timeout")
               /\ ~Emitted(out', "show_correct_answer")]_vars

\* ------------------------------------------- the wait after the reveal
\* One player in a game of one song who may lose the connection and come
\* back on another one, and acknowledge the reveal on either.
NextAck ==
    \/ nextSid <= LastSid /\ handle_connect
    \/ JoinFirst
    \/ Waiting /\ handle_start_game(Host, 1, 1, "ok")
    \/ \E i \in 1 .. MaxStarts : StartGameFinish(i) /\ FirstChoiceCorrect
    \/ Playing /\ ~room.voting_closed /\ timers = << >>
          /\ handle_playback_started(Host)
    \/ \E i \in 1 .. MaxTasks : question_timeout(i)
    \/ \E i \in 1 .. MaxTasks : show_intermediate_scores(i)
    \/ \E s \in {FirstPlayer, LastSid} :
          Playing /\ room.voting_closed /\ handle_correct_answer_displayed(s)
    \/ handle_disconnect(FirstPlayer)
    \/ Playing /\ handle_rejoin(LastSid, NameOf(FirstPlayer), FALSE)
    \/ Sleep

SpecAck == Init /\ [][NextAck]_vars

\* Every participant of the roster that is not marked disconnected has
\* acknowledged the reveal.
AllConnectedAcked(r) ==
    \A i \in DOMAIN r.participants :
        r.participants[i].disconnected
        \/ r.participants[i].sid \in r.correct_answer_acks

\* C29 as stated : the standings go out before the 2 seconds are over only
\* if every connected participant has acknowledged the reveal, and the
\* close routine does not go on waiting once they all have: a participant
\* marked disconnected is not waited for, and acknowledgments of
\* identities that left the roster count for nothing.
C29_AcksOfConnected ==
    [][/\ \A i \in DOMAIN closes :
            ( /\ show_intermediate_scores(i)
              /\ closes[i].waited < CLOSE_MAX_WAIT )
            => AllConnectedAcked(room)
       /\ ( /\ closes # << >>
            /\ Len(closes') = Len(closes)
            /\ \A i \in DOMAIN closes : closes'[i].waited > closes[i].waited )
            => ~AllConnectedAcked(room)]_vars

\* ------------------------------------------- the standings display
\* C30 : the barrier started by standings_displayed sends advance_question,
\* game_ended or series_ended no earlier than 6 seconds after the handler
\* ran, even when every participant is ready at once, and no later than
\* 14 seconds after it, even when nobody is.
C30_DisplayWindow ==
    [][\A i \in DOMAIN barriers :
         BarrierCompletes(i)
         => /\ barriers[i].elapsed >= MIN_DISPLAY_TIME
            /\ barriers[i].elapsed <= READY_MAX_WAIT
            /\ \/ Emitted(out', "advance_question")
               \/ Emitted(out', "game_ended")
               \/ Emitted(out', "series_ended")]_vars

\* The barrier has sent the host on to the next question although the
\* player was ready, or has ended the series although nobody was.
C30_Witness ==
    /\ Pin \in rooms
    /\ room.participants # << >>
    /\ \/ Emitted(out, "advance_question")
             /\ Keys(room.participants) \subseteq room.standings_ready_acks
       \/ Emitted(out, "series_ended") /\ room.standings_ready_acks = {}

\* ------------------------------------------------- what moves a score
\* A series of two games of one song, the host going on to the next game
\* after the reveal, and one player who may send join_room again, lose the
\* connection and come back on another one at any moment.
NextFrame ==
    \/ nextSid <= LastSid /\ handle_connect
    \/ Pin \in rooms /\ handle_join_room(FirstPlayer, NameOf(FirstPlayer))
    \/ Waiting /\ handle_start_game(Host, 1, 2, "ok")
    \/ \E i \in 1 .. MaxStarts : StartGameFinish(i) /\ FirstChoiceCorrect
    \/ \E a \in AnswerChoices : Playing /\ handle_submit_answer(FirstPlayer, a, None)
    \/ Playing /\ ~room.voting_closed /\ Idle /\ handle_playback_started(Host)
    \/ \E i \in 1 .. MaxTasks : question_timeout(i)
    \/ \E i \in 1 .. MaxTasks : show_intermediate_scores(i)
    \/ Playing /\ room.voting_closed /\ handle_correct_answer_displayed(FirstPlayer)
    \/ Playing /\ room.voting_closed /\ Idle /\ handle_start_next_game(Host)
    \/ handle_disconnect(FirstPlayer)
    \/ Playing /\ handle_rejoin(LastSid, NameOf(FirstPlayer), FALSE)
    \/ Sleep

SpecFrame == Init /\ [][NextFrame]_vars

\* C31 as stated : the score of a participant who is on the roster changes
\* only when an answer of that participant with the correct option is
\* accepted, or when start_next_game from the host sets it to 0.
C31_ScoreFrame ==
    [][\A s \in SidSet :
         ( /\ Pin \in rooms
           /\ s \in Keys(room.participants)
           /\ s \in Keys(room'.participants)
           /\ ScoreOf(room', s) # ScoreOf(room, s) )
         => \/ \E a \in AnswerChoices, ct \in ClientStamps :
                 /\ handle_submit_answer(s, a, ct)
                 /\ IsCorrect(room, a)
                 /\ Accepted(out')
            \/ /\ handle_start_next_game(room.host_sid)
               /\ ScoreOf(room', s) = 0]_vars

\* ---------------------------------------------- the gains of a question
\* A game of two songs with the host following the protocol, and one
\* player who answers or not, may lose the connection and come back on
\* another one, and acknowledges nothing.
NextGains ==
    \/ nextSid <= LastSid /\ handle_connect
    \/ JoinFirst
    \/ Waiting /\ handle_start_game(Host, 2, 1, "ok")
    \/ \E i \in 1 .. MaxStarts : StartGameFinish(i) /\ FirstChoiceCorrect
    \/ \E s \in {FirstPlayer, LastSid}, a \in AnswerChoices :
          Playing /\ s \in Keys(room.participants)
          /\ handle_submit_answer(s, a, None)
    \/ Playing /\ ~room.voting_closed /\ Idle /\ handle_playback_started(Host)
    \/ \E i \in 1 .. MaxTasks : question_timeout(i)
    \/ \E i \in 1 .. MaxTasks : show_intermediate_scores(i)
    \/ Playing /\ room.voting_closed /\ Idle /\ hist.standings = 1
          /\ handle_standings_displayed(Host)
    \/ \E i \in 1 .. MaxTasks : wait_for_ready(i)
    \/ \E i \in 1 .. MaxTasks : ready_wait_over(i)
    \/ Playing /\ Emitted(out, "advance_question") /\ handle_next_question(Host)
    \/ handle_disconnect(FirstPlayer)
    \/ Playing /\ LastSid \notin Keys(room.participants)
          /\ handle_rejoin(LastSid, NameOf(FirstPlayer), FALSE)
    \/ Sleep

SpecGains == Init /\ [][NextGains]_vars

\* What the one player of the room was awarded for the current question:
\* alone, the player is first and as fast as the fastest.
AwardedFor(r, s) ==
    IF HasAnswered(r, s) /\ IsCorrect(r, Get(CurrentAnswers(r), s).answer)
    THEN calculate_speed_points(r, s) * get_score_multiplier(r)
    ELSE 0

\* C32 as stated : in the standings sent after a question closes, the
\* points_gained of every participant are the points the participant was
\* awarded for this question, also after a rejoin under a new identity
\* while the question was in progress.
C32_GainsAreAwards ==
    [][\A i \in DOMAIN closes :
         (show_intermediate_scores(i) /\ Pin \in rooms)
         => \A e \in out' :
              e.ev = "show_intermediate_scores"
              => \A k \in DOMAIN e.arg[2] :
                   e.arg[2][k].points_gained = AwardedFor(room, e.arg[2][k].sid)]_vars

\* ------------------------------------------- the host comes back
\* A game of two songs driven by whoever is the host, one player who
\* answers nothing and says ready_for_next while the standings are up, and
\* a host who may lose the connection and come back on another one.
NextAdvance ==
    \/ nextSid <= LastSid /\ handle_connect
    \/ JoinFirst
    \/ Waiting /\ handle_start_game(room.host_sid, 2, 1, "ok")
    \/ \E i \in 1 .. MaxStarts : StartGameFinish(i) /\ FirstChoiceCorrect
    \/ Playing /\ ~room.voting_closed /\ Idle
          /\ handle_playback_started(room.host_sid)
    \/ \E i \in 1 .. MaxTasks : question_timeout(i)
    \/ \E i \in 1 .. MaxTasks : show_intermediate_scores(i)
    \/ Playing /\ room.voting_closed /\ Idle /\ hist.standings = 1
          /\ handle_standings_displayed(room.host_sid)
    \/ Playing /\ barriers # << >> /\ handle_ready_for_next(FirstPlayer)
    \/ \E i \in 1 .. MaxTasks : wait_for_ready(i)
    \/ \E i \in 1 .. MaxTasks : ready_wait_over(i)
    \/ \E i \in 1 .. MaxTasks : min_display_over(i)
    \/ Playing /\ Emitted(out, "advance_question")
          /\ handle_next_question(room.host_sid)
    \/ handle_disconnect(Host)
    \/ Pin \in rooms /\ room.host_disconnected
          /\ handle_rejoin(LastSid, NameOf(FirstPlayer), TRUE)
    \/ Sleep

SpecAdvance == Init /\ [][NextAdvance]_vars

\* The reply to a host rejoin says that the barrier is already satisfied.
SaysShouldAdvance(o) ==
    \E e \in o : e.ev = "rejoin_success" /\ e.arg = <<1>>

\* C33 as stated : a host rejoin while the state is playing is told
\* should_advance only if the voting of the current question is closed and
\* every participant on the roster has sent ready_for_next for the
\* standings of the current question; acknowledgments of an earlier
\* question never make the flag true.
C33_AdvanceFlag ==
    [][\A s \in SidSet, name \in Names :
         ( /\ Playing
           /\ handle_rejoin(s, name, TRUE)
           /\ SaysShouldAdvance(out') )
         => /\ room.voting_closed
            /\ Keys(room.participants) \subseteq hist.ready]_vars

\* ------------------------------------------------- joining mid-game
\* A game of one song with one player from the start and a second
\* connection that joins while the game is on; both may answer.
NextLate ==
    \/ nextSid <= LastSid /\ handle_connect
    \/ JoinFirst
    \/ Waiting /\ handle_start_game(Host, 1, 1, "ok")
    \/ \E i \in 1 .. MaxStarts : StartGameFinish(i) /\ FirstChoiceCorrect
    \/ Playing /\ LastSid \notin Keys(room.participants)
          /\ handle_join_room(LastSid, NameOf(LastSid))
    \/ \E s \in {FirstPlayer, LastSid}, a \in AnswerChoices :
          Playing /\ handle_submit_answer(s, a, None)
    \/ Playing /\ ~room.voting_closed /\ Idle /\ handle_playback_started(Host)
    \/ \E i \in 1 .. MaxTasks : question_timeout(i)
    \/ \E i \in 1 .. MaxTasks : show_intermediate_scores(i)
    \/ Sleep

SpecLate == Init /\ [][NextLate]_vars

\* C34 as stated : a submit_answer from a participant who joined while
\* the state was playing, for the question that was in progress at the
\* join, is not recorded in the ledger and earns no points.
C34_LateJoinerSitsOut ==
    [][\A s \in SidSet, a \in AnswerChoices, ct \in ClientStamps :
         ( /\ handle_submit_answer(s, a, ct)
           /\ Pin \in rooms
           /\ s \in Keys(room.participants)
           /\ s \in DOMAIN hist.late
           /\ hist.late[s] = hist.epoch )
         => /\ ~HasAnswered(room', s)
            /\ ScoreOf(room', s) = ScoreOf(room, s)]_vars

\* ------------------------------------------------- after the game
\* A game of one song with one player: the host ends the game, advances
\* past its last question or lets the barrier end the series, and the
\* clients go on sending submit_answer and standings_displayed afterwards.
NextEnded ==
    \/ nextSid = FirstPlayer /\ handle_connect
    \/ JoinFirst
    \/ Waiting /\ handle_start_game(Host, 1, 1, "ok")
    \/ \E i \in 1 .. MaxStarts : StartGameFinish(i) /\ FirstChoiceCorrect
    \/ \E a \in AnswerChoices :
          Pin \in rooms /\ handle_submit_answer(FirstPlayer, a, None)
    \/ Playing /\ ~room.voting_closed /\ Idle /\ handle_playback_started(Host)
    \/ \E i \in 1 .. MaxTasks : question_timeout(i)
    \/ \E i \in 1 .. MaxTasks : show_intermediate_scores(i)
    \/ Pin \in rooms /\ room.state # "waiting" /\ Idle
          /\ handle_standings_displayed(Host)
    \/ \E i \in 1 .. MaxTasks : wait_for_ready(i)
    \/ \E i \in 1 .. MaxTasks : ready_wait_over(i)
    \/ \E i \in 1 .. MaxTasks : min_display_over(i)
    \/ Playing /\ Idle /\ handle_next_question(Host)
    \/ Playing /\ Idle /\ handle_end_game(Host)
    \/ Sleep

SpecEnded == Init /\ [][NextEnded]_vars

\* The host starts a game: start_game, the end of its generation, or
\* start_next_game.
HostStartsGame ==
    \/ \E sc \in SongCounts, gc \in GamesCounts, o \in ProviderOutcomes :
          handle_start_game(room.host_sid, sc, gc, o)
    \/ \E i \in 1 .. MaxStarts : StartGameFinish(i)
    \/ handle_start_next_game(room.host_sid)

\* C35 as stated : while the state is ended, nothing but the host
\* starting a game changes the score of a participant or an entry of the
\* series scores; submit_answer and standings_displayed award and fold
\* nothing.
C35_EndedIsFrozen ==
    [][( /\ Pin \in rooms
         /\ room.state = "ended"
         /\ ~HostStartsGame )
       => /\ \A s \in Keys(room.participants) \cap Keys(room'.participants) :
               ScoreOf(room', s) = ScoreOf(room, s)
          /\ room'.series_scores = room.series_scores]_vars

\* ------------------------------------------------- a fresh ledger
\* C36 as stated : whenever a question is sent, the ledger holds no answer
\* for the index of that question, so that every participant can still
\* answer it; a submit_answer sent in the waiting room does not take the
\* first question away from its sender.
C36_FreshLedger ==
    [][(Pin \in rooms /\ Emitted(out', "new_question"))
       => CurrentAnswers(room') = << >>]_vars

\* ------------------------------------------------- the game number
\* C37 as stated : current_game_number never exceeds games_in_series, and
\* a start_next_game from the host when the series has no next game leaves
\* the game number, the scores, the question index, the ledger and the
\* questions as they are.
C37_NoGameBeyondSeries ==
    [][/\ Pin \in rooms => room'.current_game_number <= room'.games_in_series
       /\ ( /\ Pin \in rooms
            /\ handle_start_next_game(room.host_sid)
            /\ room.current_game_number >= room.games_in_series )
          => /\ room'.current_game_number = room.current_game_number
             /\ room'.participants = room.participants
             /\ room'.question_index = room.question_index
             /\ room'.answers = room.answers
             /\ room'.questions = room.questions]_vars

\* ------------------------------------------------- the low ranks
\* A game of one or two songs in which up to MaxRank - 1 other players
\* have answered the question correctly before the first player does.
InitRank ==
    /\ rooms = {Pin}
    /\ \E total \in 1 .. 2, prior \in 0 .. MaxRank - 1 :
          \E n \in 1 .. total : room = ScoreRoom(total, n, prior)
    /\ connected = {Host} \cup {FirstPlayer + k : k \in 0 .. MaxRank - 1}
    /\ nextSid = FirstPlayer + MaxRank
    /\ now = 0
    /\ sweeper = SWEEP_INTERVAL
    /\ timers = << >>
    /\ closes = << >>
    /\ barriers = << >>
    /\ starts = << >>
    /\ hist = [epoch |-> 0, timeouts |-> 0, closes |-> 0, standings |-> 0,
               folds |-> 0, left |-> EmptyDict, away |-> None,
               played |-> FALSE, ready |-> {}, late |-> EmptyDict,
               superseded |-> EmptyDict]
    /\ out = {}

SpecRank == InitRank /\ [][NextScore]_vars

\* C38 as stated : the points added for a correct answer are never
\* negative, at any rank: an accepted correct answer never lowers the
\* score of the responder.
C38_PointsNotNegative ==
    [][\A a \in AnswerChoices, ct \in 0 .. MaxDelta :
         ( /\ handle_submit_answer(FirstPlayer, a, ct)
           /\ IsCorrect(room, a)
           /\ Accepted(out') )
         => ScoreOf(room', FirstPlayer) >= ScoreOf(room, FirstPlayer)]_vars

\* ------------------------------------------------- taking over
\* The identity a rejoin_room is aimed at is still connected.
AimedAtConnected(r, name, was_host) ==
    IF was_host THEN ~r.host_disconnected
    ELSE /\ OldSid(r, name) # None
         /\ ~Get(r.participants, OldSid(r, name)).disconnected

\* C39 as stated : a rejoin takes over only an identity that is marked
\* disconnected; a rejoin_room aimed at a host or a participant that is
\* still connected changes nothing in the room.
C39_RejoinNeedsDisconnected ==
    [][\A s \in SidSet, name \in Names, was_host \in BOOLEAN :
         ( /\ Pin \in rooms
           /\ handle_rejoin(s, name, was_host)
           /\ AimedAtConnected(room, name, was_host) )
         => room' = room]_vars

\* ------------------------------------------------- the old connection
\* C40 : the disconnect of a connection whose identity a rejoin has taken
\* over (the former connection of the host, the former key of a
\* participant) marks neither the host nor a participant disconnected: it
\* leaves the room as it is, and gives the sweeper nothing to remove.
C40_SupersededDisconnect ==
    [][\A s \in SidSet :
         ( /\ Pin \in rooms
           /\ s \in DOMAIN hist.superseded
           /\ handle_disconnect(s) )
         => /\ room' = room
            /\ rooms' = rooms]_vars

\* The former connection of the host and the former connection of the
\* participant have both disconnected after the take-over.
C40_Witness ==
    /\ Pin \in rooms
    /\ room.host_sid = LastSid
    /\ LastSid \in Keys(room.participants)
    /\ {Host, FirstPlayer} \subseteq DOMAIN hist.superseded
    /\ hist.superseded[Host]
    /\ hist.superseded[FirstPlayer]

\* The tasks in flight are within their bounds.
TypeOK ==
    /\ rooms \subseteq {Pin}
    /\ Len(timers) <= MaxTasks
    /\ Len(closes) <= MaxTasks + 1
    /\ Len(barriers) <= MaxTasks
    /\ Len(starts) <= MaxStarts
    /\ \A i \in DOMAIN timers : timers[i].left \in 0 .. QUESTION_TIMEOUT
    /\ hist.epoch <= MaxQuestions * MaxGameNumber * (MaxQuestions + MaxOverrun + 2)

====
